---- MODULE Spec2Model ----
(***************************************************************************)
(* A model of the public-health dashboard backend.                         *)
(*                                                                         *)
(*   - the mortality predictor (backend/utils/ml_model.py): artifact       *)
(*     loading, the inference-time feature builder, risk banding;          *)
(*   - the prediction route (backend/routes/predictions.py) served by      *)
(*     concurrent worker threads (backend/app.py, threaded=True);          *)
(*   - the artifact writer at the end of backend/train_model.py;           *)
(*   - the request-scoped store connection (backend/utils/db.py);          *)
(*   - the aggregation endpoints (backend/routes/cases.py, dashboard.py)   *)
(*     over the tables the ETL job (etl.py) fills, and the permission      *)
(*     gate (backend/utils/rbac.py).                                       *)
(*                                                                         *)
(* Numbers.  Python floats are modelled as exact fixed-point numbers in    *)
(* thousandths (Unit), which represents 0.92 * x, 0.5 * x and 0.1 * x      *)
(* exactly for the integer inputs used here.  Probabilities are in tenths  *)
(* (ProbScale).  Rates are exact fractions.  np.log1p is kept symbolic.    *)
(***************************************************************************)
EXTENDS Integers, Sequences, FiniteSets, TLC

VARIABLES
    files,      \* models/*.pkl on disk: file name -> blob state
    trainer,    \* progress of the artifact writer of train_model.py
    predictor,  \* the module-level `predictor` of ml_model.py
    pc,         \* per worker thread: position in the request being served
    kind,       \* per worker: "route" (POST /mortality) or "direct" (predict())
    hdr,        \* per worker: the X-API-Key header of the request
    data,       \* per worker: the submitted snapshot (a dict)
    obj,        \* per worker: the MortalityPredictor under construction
    resp,       \* per worker: the outcome of the last finished request
    loads,      \* number of completed MortalityPredictor() constructions
    conn,       \* per db caller: state of the connection opened by the call
    dbpc,       \* per db caller: position inside execute_query
    mode,       \* per db caller: fetch_one / fetch_all / commit
    dbUp,       \* whether the MySQL server is reachable
    dbout,      \* per db caller: outcome of the last execute_query call
    attempts,   \* per db caller: connection attempts made by the current call
    prev,       \* per db caller: how the call before the current one ended
    daily_cases,        \* the rows of table daily_cases
    dashboard_metrics,  \* the rows of table dashboard_metrics
    etl,        \* outcome of the last ETL statement
    req,        \* the last API request answered by the aggregation layer
    ans,        \* its response
    tjob,       \* the training script: its position and its data frame
    erun        \* one run of run_complete_etl: its position and connection

predVars == <<files, trainer, predictor, pc, kind, hdr, data, obj, resp, loads>>
dbVars   == <<conn, dbpc, mode, dbUp, dbout, attempts, prev>>
apiVars  == <<daily_cases, dashboard_metrics, etl, req, ans, tjob, erun>>
vars     == <<files, trainer, predictor, pc, kind, hdr, data, obj, resp, loads,
              conn, dbpc, mode, dbUp, dbout, attempts, prev,
              daily_cases, dashboard_metrics, etl, req, ans, tjob, erun>>

(***************************************************************************)
(* Bounds and scales                                                       *)
(***************************************************************************)
\* Training runs whose artifacts can be on disk (run 1 is the initial one).
MaxRuns == 2

\* Connection attempts one execute_query call is followed through.
MaxAttempts == 2

\* Fixed-point scale of the float model: 1.0 is Unit.
Unit == 1000

\* predict_proba values are multiples of 1/ProbScale.
ProbScale == 10

Workers == {"w1", "w2"}

(***************************************************************************)
(* Snapshots: the dict handed to predict                                   *)
(***************************************************************************)
Has(d, k) == k \in DOMAIN d

\* dict.get(k, default), the stored value converted to thousandths
Get(d, k, default) == IF Has(d, k) THEN d[k] * Unit ELSE default

Abs(x) == IF x < 0 THEN -x ELSE x

Num(x) == [kind |-> "num", v |-> x]

\* np.log1p: defined above -1, nan or -inf (with a warning, no exception) below
Log1p(x) ==
    IF x > -Unit THEN [kind |-> "log1p", v |-> x]
                 ELSE [kind |-> "nonfinite", v |-> 0]

(***************************************************************************)
(* Artifact blobs and predictor objects                                    *)
(***************************************************************************)
FileNames == {"model", "features", "metrics", "scaler"}

\* A file of models/: absent, opened for writing and not yet dumped
\* ("partial"), or a pickled blob of training run `run`.  `n` is the number
\* of features the blob was built for (n_features_in_ of the classifier and
\* of the scaler, the length of the feature-name list).
Absent == [st |-> "absent", run |-> 0, n |-> 0]
Partial == [st |-> "partial", run |-> 0, n |-> 0]
Blob(r, k) == [st |-> "blob", run |-> r, n |-> k]

\* Python's None for a predictor field
None == [st |-> "none", run |-> 0, n |-> 0]

\* The module-level `predictor = None`
NoPredictor ==
    [id |-> "none", model |-> None, scaler |-> None,
     feature_columns |-> None, metrics |-> None]

\* MortalityPredictor.__init__ before load_model: a fresh object, all None
NewPredictor(t) ==
    [id |-> t, model |-> None, scaler |-> None,
     feature_columns |-> None, metrics |-> None]

(***************************************************************************)
(* prepare_features: the 19 locals and the vector                          *)
(***************************************************************************)
LagFactor == 920
HalfFactor == 500
AccelFactor == 100
DefaultDayOfWeek == 3
DefaultDaysSinceFirst == 30
DefaultRegion == 0

\* x * f for a float literal f given in thousandths
Times(x, f) == (x * f) \div Unit

confirmed(d) == Get(d, "confirmed", 0)
deaths(d) == Get(d, "deaths", 0)
recovered(d) == Get(d, "recovered", 0)
active(d) == Get(d, "active", confirmed(d) - deaths(d) - recovered(d))

confirmed_lag2(d) == Get(d, "confirmed_lag2", Times(confirmed(d), LagFactor))
\* the variant: the lag defaulted to the current count itself
deaths_lag2_current(d) == Get(d, "deaths_lag2", deaths(d))
deaths_lag2(d) == Get(d, "deaths_lag2", Times(deaths(d), LagFactor))
recovered_lag2(d) == Get(d, "recovered_lag2", Times(recovered(d), LagFactor))
active_lag2(d) == Get(d, "active_lag2", Times(active(d), LagFactor))

\* the variant: the change read from the mapping when the caller sends it
confirmed_change_2d_supplied(d) ==
    Get(d, "confirmed_change_2d", confirmed(d) - confirmed_lag2(d))
confirmed_change_2d(d) == confirmed(d) - confirmed_lag2(d)
deaths_change_2d(d) == deaths(d) - deaths_lag2(d)
recovered_change_2d(d) == recovered(d) - recovered_lag2(d)

confirmed_rolling_14d(d) == Get(d, "confirmed_rolling_14d", confirmed(d))
deaths_rolling_14d(d) == Get(d, "deaths_rolling_14d", deaths(d))
recovered_rolling_14d(d) == Get(d, "recovered_rolling_14d", recovered(d))

confirmed_volatility(d) ==
    Get(d, "confirmed_volatility", Times(Abs(confirmed_change_2d(d)), HalfFactor))
deaths_volatility(d) ==
    Get(d, "deaths_volatility", Times(Abs(deaths_change_2d(d)), HalfFactor))

confirmed_acceleration(d) ==
    Get(d, "confirmed_acceleration", Times(confirmed_change_2d(d), AccelFactor))

day_of_week(d) == Get(d, "day_of_week", DefaultDayOfWeek * Unit)
days_since_first(d) == Get(d, "days_since_first", DefaultDaysSinceFirst * Unit)
who_region_encoded(d) == Get(d, "who_region_encoded", DefaultRegion * Unit)

log_confirmed_lag2(d) == Log1p(confirmed_lag2(d))
log_deaths_lag2(d) == Log1p(deaths_lag2(d))
log_recovered_lag2(d) == Log1p(recovered_lag2(d))

\* A plausible slip: the first two slots of the array literal exchanged.
FeatureArraySwapped(d) ==
    << Num(deaths_lag2(d)), Num(confirmed_lag2(d)), Num(recovered_lag2(d)),
       Num(active_lag2(d)),
       Num(confirmed_change_2d(d)), Num(deaths_change_2d(d)),
       Num(recovered_change_2d(d)),
       Num(confirmed_rolling_14d(d)), Num(deaths_rolling_14d(d)),
       Num(recovered_rolling_14d(d)),
       Num(confirmed_volatility(d)), Num(deaths_volatility(d)),
       Num(confirmed_acceleration(d)),
       Num(day_of_week(d)), Num(days_since_first(d)),
       Num(who_region_encoded(d)),
       log_confirmed_lag2(d), log_deaths_lag2(d), log_recovered_lag2(d) >>

\* features = np.array([[ ... ]]) : the single row, in the order written
FeatureArray(d) ==
    << Num(confirmed_lag2(d)), Num(deaths_lag2(d)), Num(recovered_lag2(d)),
       Num(active_lag2(d)),
       Num(confirmed_change_2d(d)), Num(deaths_change_2d(d)),
       Num(recovered_change_2d(d)),
       Num(confirmed_rolling_14d(d)), Num(deaths_rolling_14d(d)),
       Num(recovered_rolling_14d(d)),
       Num(confirmed_volatility(d)), Num(deaths_volatility(d)),
       Num(confirmed_acceleration(d)),
       Num(day_of_week(d)), Num(days_since_first(d)),
       Num(who_region_encoded(d)),
       log_confirmed_lag2(d), log_deaths_lag2(d), log_recovered_lag2(d) >>

\* feature_columns of train_model.py, the list X is built from and that is
\* pickled to models/feature_columns.pkl
feature_columns ==
    << "confirmed_lag2", "deaths_lag2", "recovered_lag2", "active_lag2",
       "confirmed_change_2d", "deaths_change_2d", "recovered_change_2d",
       "confirmed_rolling_14d", "deaths_rolling_14d", "recovered_rolling_14d",
       "confirmed_volatility", "deaths_volatility",
       "confirmed_acceleration",
       "day_of_week", "days_since_first",
       "who_region_encoded",
       "log_confirmed_lag2", "log_deaths_lag2", "log_recovered_lag2" >>

\* The inference-time value of the feature a training column name denotes
NamedFeature(name, d) ==
    CASE name = "confirmed_lag2" -> Num(confirmed_lag2(d))
      [] name = "deaths_lag2" -> Num(deaths_lag2(d))
      [] name = "recovered_lag2" -> Num(recovered_lag2(d))
      [] name = "active_lag2" -> Num(active_lag2(d))
      [] name = "confirmed_change_2d" -> Num(confirmed_change_2d(d))
      [] name = "deaths_change_2d" -> Num(deaths_change_2d(d))
      [] name = "recovered_change_2d" -> Num(recovered_change_2d(d))
      [] name = "confirmed_rolling_14d" -> Num(confirmed_rolling_14d(d))
      [] name = "deaths_rolling_14d" -> Num(deaths_rolling_14d(d))
      [] name = "recovered_rolling_14d" -> Num(recovered_rolling_14d(d))
      [] name = "confirmed_volatility" -> Num(confirmed_volatility(d))
      [] name = "deaths_volatility" -> Num(deaths_volatility(d))
      [] name = "confirmed_acceleration" -> Num(confirmed_acceleration(d))
      [] name = "day_of_week" -> Num(day_of_week(d))
      [] name = "days_since_first" -> Num(days_since_first(d))
      [] name = "who_region_encoded" -> Num(who_region_encoded(d))
      [] name = "log_confirmed_lag2" -> log_confirmed_lag2(d)
      [] name = "log_deaths_lag2" -> log_deaths_lag2(d)
      [] name = "log_recovered_lag2" -> log_recovered_lag2(d)

(***************************************************************************)
(* The fitted scaler and classifier (scikit-learn objects)                 *)
(***************************************************************************)
Finite(x) == \A i \in 1..Len(x) : x[i].kind # "nonfinite"

Raise(e) == [ok |-> FALSE, err |-> e, vals |-> <<>>, scaledBy |-> 0]

\* scaler.transform(features): validates the column count and finiteness,
\* then standardises with the statistics of the run that fitted it.
ScalerTransform(s, x) ==
    IF s.n # Len(x) THEN Raise("ValueError: feature count")
    ELSE IF ~Finite(x) THEN Raise("ValueError: NaN or infinity")
    ELSE [ok |-> TRUE, err |-> "", vals |-> x, scaledBy |-> s.run]

\* A slip: the scaler looked up on disk at each call instead of on the object
ScalerOnDisk(o) == IF files["scaler"].st = "absent" THEN None ELSE files["scaler"]

\* self.scaler
ScalerOf(o) == o.scaler

\* if self.scaler is not None: features = self.scaler.transform(features)
prepare_features(o, d) ==
    IF ScalerOf(o) # None
        THEN ScalerTransform(ScalerOf(o), FeatureArray(d))
        ELSE [ok |-> TRUE, err |-> "", vals |-> FeatureArray(d), scaledBy |-> 0]

RECURSIVE Digest(_, _)
Digest(x, i) ==
    IF i > Len(x) THEN 0
    ELSE (i * (x[i].v + (IF x[i].kind = "log1p" THEN 1 ELSE 0)) + Digest(x, i + 1))
         % (ProbScale + 1)

\* model.predict_proba(features)[0][1]: the fitted forest is a fixed function
\* of its input; each training run fits a different one.  In tenths.
ProbaHigh(m, f) == (7 * m.run + 3 * f.scaledBy + Digest(f.vals, 1)) % (ProbScale + 1)

\* model.predict / predict_proba validate the input like the scaler does
ModelAccepts(m, f) == m.n = Len(f.vals) /\ Finite(f.vals)

(***************************************************************************)
(* MortalityPredictor.predict                                              *)
(***************************************************************************)
HighRisk == 7
MediumRisk == 4

RECURSIVE GCD(_, _)
GCD(a, b) == IF b = 0 THEN a ELSE GCD(b, a % b)

\* a / b as an exact fraction in lowest terms; ZeroDivisionError when b = 0
Quot(a, b) ==
    IF b = 0 THEN [err |-> TRUE, num |-> 0, den |-> 0]
    ELSE LET g == GCD(Abs(a), Abs(b))
             s == IF b < 0 THEN -1 ELSE 1
         IN [err |-> FALSE, num |-> s * (a \div g), den |-> s * (b \div g)]

Zero == [err |-> FALSE, num |-> 0, den |-> 1]

\* A slip: the guard written >= 0
RateGuardNonNegative(d) == Get(d, "confirmed", 0) >= 0

\* ... if data.get('confirmed', 0) > 0 else 0
RateGuard(d) == Get(d, "confirmed", 0) > 0

\* A slip: the ratio left as a fraction instead of a percentage
MortalityRateFraction(d) ==
    IF RateGuard(d)
        THEN Quot(Get(d, "deaths", 0), Get(d, "confirmed", Unit))
        ELSE Zero

\* data.get('deaths', 0) / data.get('confirmed', 1) * 100
MortalityRate(d) ==
    IF RateGuard(d)
        THEN Quot(Get(d, "deaths", 0) * 100, Get(d, "confirmed", Unit))
        ELSE Zero

\* A slip: the boundaries taken inclusively
RiskLevelInclusive(p) ==
    IF p >= HighRisk THEN "HIGH"
    ELSE IF p >= MediumRisk THEN "MEDIUM"
    ELSE "LOW"

\* if risk_score > 0.7 ... elif risk_score > 0.4 ... else
RiskLevel(p) ==
    IF p > HighRisk THEN "HIGH"
    ELSE IF p > MediumRisk THEN "MEDIUM"
    ELSE "LOW"

RiskColor(p) ==
    IF p > HighRisk THEN "red"
    ELSE IF p > MediumRisk THEN "orange"
    ELSE "green"

Recommendation(p) ==
    IF p > HighRisk THEN "High mortality risk detected."
    ELSE IF p > MediumRisk THEN "Moderate mortality risk."
    ELSE "Low mortality risk."

NoResult ==
    [prediction |-> -1, risk_score |-> -1, risk_level |-> "", risk_color |-> "",
     confidence |-> -1, recommendation |-> "", mortality_rate |-> Zero]

\* The outcome of predict(data) on predictor o.  `built` is the vector
\* prepare_features built (empty when it raised), `scored` tells whether
\* the classifier produced a score.
PredictRaise(e, f) ==
    [ok |-> FALSE, err |-> e, result |-> NoResult, built |-> f, scored |-> FALSE]

predict(o, d) ==
    LET f == prepare_features(o, d) IN
    IF ~f.ok THEN PredictRaise(f.err, <<>>)
    ELSE IF ~ModelAccepts(o.model, f) THEN PredictRaise("ValueError: model input", f.vals)
    ELSE LET p == ProbaHigh(o.model, f)
             rate == MortalityRate(d)
         IN IF rate.err
            THEN [ok |-> FALSE, err |-> "ZeroDivisionError", result |-> NoResult,
                  built |-> f.vals, scored |-> TRUE]
            ELSE [ok |-> TRUE, err |-> "",
                  result |-> [prediction |-> IF 2 * p > ProbScale THEN 1 ELSE 0,
                              risk_score |-> p,
                              risk_level |-> RiskLevel(p),
                              risk_color |-> RiskColor(p),
                              confidence |-> IF p > ProbScale - p THEN p ELSE ProbScale - p,
                              recommendation |-> Recommendation(p),
                              mortality_rate |-> rate],
                  built |-> f.vals, scored |-> TRUE]

(***************************************************************************)
(* POST /api/predictions/mortality                                         *)
(***************************************************************************)
required_fields == <<"confirmed", "deaths">>

\* [field for field in required_fields if field not in data]
missing_fields(d) == SelectSeq(required_fields, LAMBDA k : ~Has(d, k))

\* What a finished call leaves: the HTTP status and body of the route, or
\* the return / raise of a direct predict call (status 0).  `by` is the
\* predictor object that served it.
Response(st, msg, miss, out, o) ==
    [status |-> st, message |-> msg, missing |-> miss,
     ok |-> out.ok, prediction |-> out.result,
     built |-> out.built, scored |-> out.scored,
     by |-> o.id,
     features_count |-> o.feature_columns.n,
     model_run |-> o.model.run, scaler_run |-> o.scaler.run,
     metrics_run |-> o.metrics.run]

NotRun == [ok |-> FALSE, err |-> "", result |-> NoResult, built |-> <<>>, scored |-> FALSE]

NoResponse == Response(-1, "", <<>>, NotRun, NoPredictor)

\* The request validation of the route (lines 38-52): the 400 response, or
\* NoResponse when the request passes.
Validate(d) ==
    IF DOMAIN d = {} THEN Response(400, "No data provided", <<>>, NotRun, NoPredictor)
    ELSE IF missing_fields(d) # <<>>
        THEN Response(400, "Missing required fields", missing_fields(d), NotRun, NoPredictor)
    ELSE NoResponse

\* predictor.predict(data) and the formatting of its outcome: 200 with the
\* prediction, or the except branch's 500; for a direct call the bare outcome.
\* The empty mapping, and a mapping completed with defaults
Empty == [k \in {} |-> 0]

Merge(a, b) ==
    [k \in DOMAIN a \cup DOMAIN b |-> IF k \in DOMAIN a THEN a[k] ELSE b[k]]

\* lines 190-192: get_metrics hands back the metrics the predictor holds
get_metrics(o) == o.metrics

\* The caller's mapping after predict(data) has run: lines 139-188 and
\* prepare_features only read it (data.get), so it is what it was.  The
\* variant is a predict that filled in a default with data.setdefault.
predict_data_setdefault(o, d) == Merge(d, [recovered |-> 0])
predict_data(o, d) == d

\* The predictor after predict(data) or get_metrics(): no line of either
\* assigns to self.model, self.scaler, self.feature_columns or self.metrics.
predict_self(o, d) == o

Serve(k, o, d) ==
    LET out == predict(o, d) IN
    IF k = "metrics" THEN Response(200, "", <<>>, NotRun, o)
    ELSE IF k = "direct" THEN Response(0, out.err, <<>>, out, o)
    ELSE IF out.ok THEN Response(200, "success", <<>>, out, o)
    ELSE Response(500, out.err, <<>>, out, o)

\* An exception raised while loading: the route's except branch, or the raise
\* seen by a direct caller.
\* the variant: a handler that swallows the exception and answers success
FailedQuiet(k, e) == Response(200, "success", <<>>, NotRun, NoPredictor)

Failed(k, e) ==
    IF k = "direct" THEN Response(0, e, <<>>, NotRun, NoPredictor)
    ELSE Response(500, e, <<>>, NotRun, NoPredictor)

(***************************************************************************)
(* Inputs                                                                  *)
(***************************************************************************)
ConfirmedPart == {Empty, [confirmed |-> 0], [confirmed |-> 1000]}
DeathsPart == {Empty, [deaths |-> 0], [deaths |-> 50]}
RecoveredPart == {Empty, [recovered |-> 700]}
HistoryPart ==
    {Empty, [confirmed_lag2 |-> 900], [confirmed_lag2 |-> 900, deaths_lag2 |-> 45],
     [recovered_lag2 |-> -1],
     [confirmed_lag2 |-> 900, confirmed_change_2d |-> 7, log_confirmed_lag2 |-> 3],
     [deaths_change_2d |-> 5, recovered_change_2d |-> 5,
      log_deaths_lag2 |-> 2, log_recovered_lag2 |-> 2]}

\* The snapshots a client may submit
Snapshots ==
    {Merge(Merge(a, b), Merge(c, h)) :
        a \in ConfirmedPart, b \in DeathsPart, c \in RecoveredPart, h \in HistoryPart}

\* The few snapshots used where requests run concurrently
FewSnapshots ==
    {[confirmed |-> 1000, deaths |-> 50], [confirmed |-> 0, deaths |-> 50],
     [deaths |-> 50]}

Kinds == {"route", "direct"}

\* What train_model.py pickles in one run r
Trained(r) ==
    [f \in FileNames |-> Blob(r, IF f = "metrics" THEN 0 ELSE Len(feature_columns))]

\* Artifact directories a serving process can be started on: a complete run,
\* an empty directory, one file missing, or one file left over from a build
\* with another feature count.
StaleCounts == {18, 20}
InitialArtifacts ==
    {Trained(1), [f \in FileNames |-> Absent]}
    \cup {[Trained(1) EXCEPT ![f] = Absent] : f \in FileNames}
    \cup {[Trained(1) EXCEPT ![f] = Blob(1, k)] :
            f \in FileNames \ {"metrics"}, k \in StaleCounts}

(***************************************************************************)
(* The permission gate of utils/rbac.py                                    *)
(***************************************************************************)
\* ROLES, lines 10-31: role -> permissions
ROLES ==
    [public |-> {"view_dashboard", "view_fhir_capability"},
     health_official |-> {"view_dashboard", "view_statistics",
                          "view_fhir_capability", "export_data"},
     researcher |-> {"view_dashboard", "view_statistics", "access_api",
                     "export_data", "view_ml_model"},
     clinician |-> {"view_dashboard", "view_statistics", "access_api",
                    "view_fhir_data", "view_ml_model", "use_cdss"},
     admin |-> {"all"}]

\* MOCK_USERS, lines 34-40: API key -> user
MOCK_USERS ==
    [demo_api_key_public |-> [role |-> "public", name |-> "Public User"],
     demo_api_key_official |-> [role |-> "health_official", name |-> "Health Official"],
     demo_api_key_researcher |-> [role |-> "researcher", name |-> "Researcher"],
     demo_api_key_clinician |-> [role |-> "clinician", name |-> "Dr. Clinician"],
     demo_api_key_admin |-> [role |-> "admin", name |-> "System Admin"]]

\* None for a user
NoUser == [role |-> "", name |-> ""]

\* The X-API-Key header as sent: not sent, empty, unknown, or a demo key
ApiKeys == DOMAIN MOCK_USERS \cup {"absent", "", "demo_api_key_root"}

\* The permissions a handler is wrapped with: the one of test_rbac, one
\* that other roles hold, and 'all' itself
Permissions == {"access_api", "export_data", "all"}

\* lines 42-49
get_user_from_request(api_key) ==
    IF api_key \in {"absent", ""} THEN NoUser
    ELSE IF api_key \in DOMAIN MOCK_USERS THEN MOCK_USERS[api_key]
    ELSE NoUser

\* the variant without the rule for 'all'
has_permission_listed(user, required_permission) ==
    IF user = NoUser THEN FALSE
    ELSE IF user.role \notin DOMAIN ROLES THEN FALSE
    ELSE required_permission \in ROLES[user.role]

\* lines 51-67
has_permission(user, required_permission) ==
    IF user = NoUser THEN FALSE
    ELSE IF user.role \notin DOMAIN ROLES THEN FALSE
    ELSE IF "all" \in ROLES[user.role] THEN TRUE
    ELSE required_permission \in ROLES[user.role]

\* The response of a gated request, whether the wrapped handler ran, and
\* request.current_user when the request ended
Gated(st, code, ran, user) ==
    [status |-> st, message |-> code, handler_ran |-> ran, current_user |-> user]

\* app.py lines 150-162: test_rbac reads request.current_user and then
\* pd.Timestamp, a name app.py never imports; Flask answers 500
test_rbac(current_user) ==
    Gated(500, "name 'pd' is not defined", TRUE, current_user)

\* lines 69-97: decorated_function around the handler
require_permission(permission, api_key) ==
    LET user == get_user_from_request(api_key)
    IN IF user = NoUser THEN Gated(401, "AUTH_REQUIRED", FALSE, NoUser)
       ELSE IF ~has_permission(user, permission)
        THEN Gated(403, "PERMISSION_DENIED", FALSE, NoUser)
       ELSE test_rbac(user)

\* the variant: every route wrapped by require_permission('access_api')
GuardedAll(endpoint) == TRUE

\* The routes wrapped by a require_permission decorator: test_rbac alone
\* (app.py lines 148-150); no blueprint route has one.
Guarded(endpoint) == endpoint = "test-rbac"

\* Whether the request reaches the handler of the route
Admitted(endpoint, api_key) ==
    Guarded(endpoint) => has_permission(get_user_from_request(api_key), "access_api")

(***************************************************************************)
(* The serving process: get_predictor, load_model, the route               *)
(***************************************************************************)
Finish(t, r) ==
    /\ resp' = [resp EXCEPT ![t] = r]
    /\ pc' = [pc EXCEPT ![t] = "idle"]

\* decorated_function, rbac.py lines 73-92: the 401 or 403 a wrapped route
\* answers without calling its handler
Refused(api_key) ==
    LET gate == require_permission("access_api", api_key)
    IN Response(gate.status, gate.message, <<>>, NotRun, NoPredictor)

\* A request arrives with its X-API-Key header: a wrapped route refuses it
\* or calls its handler; the route validates the body (lines 36-52); a
\* direct caller of predict and GET /model-performance validate nothing.
Receive(t, k, d, api_key) ==
    /\ pc[t] = "idle"
    /\ kind' = [kind EXCEPT ![t] = k]
    /\ hdr' = [hdr EXCEPT ![t] = api_key]
    /\ data' = [data EXCEPT ![t] = d]
    /\ IF ~Admitted(k, api_key)
        THEN Finish(t, Refused(api_key))
        ELSE IF k = "route" /\ Validate(d) # NoResponse
        THEN Finish(t, Validate(d))
        ELSE /\ pc' = [pc EXCEPT ![t] = "get"]
             /\ resp' = [resp EXCEPT ![t] = NoResponse]
    /\ UNCHANGED <<files, trainer, predictor, obj, loads>>
    /\ UNCHANGED dbVars
    /\ UNCHANGED apiVars

\* predictor.predict(data) or predictor.get_metrics() on the object the
\* global refers to, and the rest of the request, which reads only that
\* object.  What the call leaves in the caller's mapping and in the
\* predictor is written down, not assumed.
Call(t) ==
    /\ Finish(t, Serve(kind[t], predictor, data[t]))
    /\ data' = [data EXCEPT ![t] =
                  IF kind[t] = "metrics" THEN data[t]
                  ELSE predict_data(predictor, data[t])]
    /\ predictor' = IF kind[t] = "metrics" THEN predictor
                    ELSE predict_self(predictor, data[t])
    /\ obj' = [obj EXCEPT ![t] = NoPredictor]

\* get_predictor, line 200: `if predictor is None`.  With the predictor
\* present it is returned and the request runs to its end.
GetPredictor(t) ==
    /\ pc[t] = "get"
    /\ IF predictor = NoPredictor
        THEN /\ pc' = [pc EXCEPT ![t] = "load_model"]
             /\ obj' = [obj EXCEPT ![t] = NewPredictor(t)]
             /\ UNCHANGED <<resp, data, predictor>>
        ELSE Call(t)
    /\ UNCHANGED <<files, trainer, kind, hdr, loads>>
    /\ UNCHANGED dbVars
    /\ UNCHANGED apiVars

\* pickle.load of an opened file
Unpickle(f) == files[f]

\* One step of load_model raised: the exception leaves __init__ and
\* get_predictor (the global stays as it is) and ends the request.
LoadFails(t, e) ==
    /\ Finish(t, Failed(kind[t], e))
    /\ obj' = [obj EXCEPT ![t] = NoPredictor]

ReadError(f) ==
    IF files[f].st = "absent" THEN "FileNotFoundError" ELSE "EOFError"

\* lines 30-34: the existence check and the read of mortality_model.pkl
LoadModel(t) ==
    /\ pc[t] = "load_model"
    /\ IF files["model"].st = "blob"
        THEN /\ obj' = [obj EXCEPT ![t].model = Unpickle("model")]
             /\ pc' = [pc EXCEPT ![t] = "load_features"]
             /\ UNCHANGED resp
        ELSE LoadFails(t, ReadError("model"))
    /\ UNCHANGED <<files, trainer, predictor, kind, hdr, data, loads>>
    /\ UNCHANGED dbVars
    /\ UNCHANGED apiVars

\* lines 36-37
LoadFeatures(t) ==
    /\ pc[t] = "load_features"
    /\ IF files["features"].st = "blob"
        THEN /\ obj' = [obj EXCEPT ![t].feature_columns = Unpickle("features")]
             /\ pc' = [pc EXCEPT ![t] = "load_metrics"]
             /\ UNCHANGED resp
        ELSE LoadFails(t, ReadError("features"))
    /\ UNCHANGED <<files, trainer, predictor, kind, hdr, data, loads>>
    /\ UNCHANGED dbVars
    /\ UNCHANGED apiVars

\* the variant: a load that swallows the error of a missing or unfinished
\* metrics file and goes on
LoadMetricsSwallowed(t) ==
    /\ pc[t] = "load_metrics"
    /\ obj' = [obj EXCEPT ![t].metrics =
                 IF files["metrics"].st = "blob" THEN Unpickle("metrics") ELSE None]
    /\ pc' = [pc EXCEPT ![t] = "load_scaler"]
    /\ UNCHANGED <<files, trainer, predictor, kind, hdr, data, resp, loads>>
    /\ UNCHANGED dbVars
    /\ UNCHANGED apiVars

\* lines 39-40
LoadMetrics(t) ==
    /\ pc[t] = "load_metrics"
    /\ IF files["metrics"].st = "blob"
        THEN /\ obj' = [obj EXCEPT ![t].metrics = Unpickle("metrics")]
             /\ pc' = [pc EXCEPT ![t] = "load_scaler"]
             /\ UNCHANGED resp
        ELSE LoadFails(t, ReadError("metrics"))
    /\ UNCHANGED <<files, trainer, predictor, kind, hdr, data, loads>>
    /\ UNCHANGED dbVars
    /\ UNCHANGED apiVars

\* if os.path.exists(scaler_path)
ScalerWanted == files["scaler"].st # "absent"

\* lines 42-48: the scaler is read only if its file exists; load_model and
\* __init__ then return.
LoadScaler(t) ==
    /\ pc[t] = "load_scaler"
    /\ IF ~ScalerWanted
        THEN /\ pc' = [pc EXCEPT ![t] = "assign"]
             /\ UNCHANGED <<obj, resp>>
        ELSE IF files["scaler"].st = "blob"
        THEN /\ obj' = [obj EXCEPT ![t].scaler = Unpickle("scaler")]
             /\ pc' = [pc EXCEPT ![t] = "assign"]
             /\ UNCHANGED resp
        ELSE LoadFails(t, ReadError("scaler"))
    /\ UNCHANGED <<files, trainer, predictor, kind, hdr, data, loads>>
    /\ UNCHANGED dbVars
    /\ UNCHANGED apiVars

\* line 201: predictor = MortalityPredictor()
Assign(t) ==
    /\ pc[t] = "assign"
    /\ predictor' = obj[t]
    /\ loads' = loads + 1
    /\ pc' = [pc EXCEPT ![t] = "return"]
    /\ UNCHANGED <<files, trainer, kind, hdr, data, obj, resp>>
    /\ UNCHANGED dbVars
    /\ UNCHANGED apiVars

\* line 202: return predictor (the global is read again), then the request
\* runs to its end on the object returned.
Return(t) ==
    /\ pc[t] = "return"
    /\ Call(t)
    /\ UNCHANGED <<files, trainer, kind, hdr, loads>>
    /\ UNCHANGED dbVars
    /\ UNCHANGED apiVars

(***************************************************************************)
(* The artifact writer of train_model.py (a separate process)              *)
(***************************************************************************)
\* The order in which section 10 of the script writes the files
WriteOrder == <<"model", "features", "scaler", "metrics">>

\* The script is run again
TrainStart ==
    /\ trainer.step = Len(WriteOrder)
    /\ trainer.run < MaxRuns
    /\ trainer' = [run |-> trainer.run + 1, step |-> 0, open |-> FALSE]
    /\ UNCHANGED <<files, predictor, pc, kind, hdr, data, obj, resp, loads>>
    /\ UNCHANGED dbVars
    /\ UNCHANGED apiVars

\* with open(path, 'wb') as f: the file is created or truncated
TrainOpen ==
    /\ trainer.step < Len(WriteOrder)
    /\ ~trainer.open
    /\ files' = [files EXCEPT ![WriteOrder[trainer.step + 1]] = Partial]
    /\ trainer' = [trainer EXCEPT !.open = TRUE]
    /\ UNCHANGED <<predictor, pc, kind, hdr, data, obj, resp, loads>>
    /\ UNCHANGED dbVars
    /\ UNCHANGED apiVars

\* pickle.dump(..., f) and the close of the file
TrainDump ==
    /\ trainer.step < Len(WriteOrder)
    /\ trainer.open
    /\ files' = [files EXCEPT ![WriteOrder[trainer.step + 1]] =
                    Trained(trainer.run)[WriteOrder[trainer.step + 1]]]
    /\ trainer' = [trainer EXCEPT !.open = FALSE, !.step = trainer.step + 1]
    /\ UNCHANGED <<predictor, pc, kind, hdr, data, obj, resp, loads>>
    /\ UNCHANGED dbVars
    /\ UNCHANGED apiVars

\* SQL NULL / Python None, and a value that is not NULL
Null == [null |-> TRUE, v |-> 0]
Val(x) == [null |-> FALSE, v |-> x]

\* The response of an aggregation endpoint: HTTP status, the error text,
\* the reported date and the list under "data" with its "count"
Answer(st, msg, dt, rows) ==
    [status |-> st, message |-> msg, date |-> dt, count |-> Len(rows), data |-> rows]

\* Before any API request: no request, no response
NoRequest == [endpoint |-> "none"]
NoAnswer == Answer(-1, "", Null, <<>>)

\* train_model.py before its first statement
TrainingNotRun == [step |-> "start", df |-> <<>>, threshold |-> Null, df_clean |-> <<>>]

\* run_complete_etl before its first statement
EtlNotRun ==
    [step |-> 0, connection |-> "none", pending |-> {}, error |-> "",
     rows |-> <<>>, csv |-> <<>>, done |-> <<>>]

\* No batch job is running
JobsIdle ==
    /\ tjob = TrainingNotRun
    /\ erun = EtlNotRun

\* The store before the ETL job has run, and no API request answered yet
ApiIdle ==
    /\ JobsIdle
    /\ daily_cases = {}
    /\ dashboard_metrics = {}
    /\ etl = "none"
    /\ req = NoRequest
    /\ ans = NoAnswer

\* No execute_query call is in progress
DbIdle ==
    /\ conn = [c \in Workers |-> "none"]
    /\ dbpc = [c \in Workers |-> "idle"]
    /\ mode = [c \in Workers |-> "fetch_all"]
    /\ dbUp = TRUE
    /\ dbout = [c \in Workers |-> "none"]
    /\ attempts = [c \in Workers |-> 0]
    /\ prev = [c \in Workers |-> "none"]

ServingIdle ==
    /\ trainer = [run |-> 1, step |-> Len(WriteOrder), open |-> FALSE]
    /\ predictor = NoPredictor
    /\ pc = [t \in Workers |-> "idle"]
    /\ kind = [t \in Workers |-> "route"]
    /\ hdr = [t \in Workers |-> "absent"]
    /\ data = [t \in Workers |-> Empty]
    /\ obj = [t \in Workers |-> NoPredictor]
    /\ resp = [t \in Workers |-> NoResponse]
    /\ loads = 0

\* One worker serving requests one after another, on any artifact directory
InitPredict ==
    /\ files \in InitialArtifacts
    /\ ServingIdle
    /\ DbIdle
    /\ ApiIdle

NextPredict ==
    \/ \E k \in Kinds, d \in Snapshots : Receive("w1", k, d, "absent")
    \/ Receive("w1", "metrics", Empty, "absent")
    \/ GetPredictor("w1")
    \/ LoadModel("w1")
    \/ LoadFeatures("w1")
    \/ LoadMetrics("w1")
    \/ LoadScaler("w1")
    \/ Assign("w1")
    \/ Return("w1")

SpecPredict == InitPredict /\ [][NextPredict]_vars

\* The threaded server on a complete artifact directory, with the training
\* script able to run again beside it
Init ==
    /\ files = Trained(1)
    /\ ServingIdle
    /\ DbIdle
    /\ ApiIdle

Next ==
    \/ \E t \in Workers, d \in FewSnapshots : Receive(t, "route", d, "absent")
    \/ \E t \in Workers : GetPredictor(t)
    \/ \E t \in Workers : LoadModel(t)
    \/ \E t \in Workers : LoadFeatures(t)
    \/ \E t \in Workers : LoadMetrics(t)
    \/ \E t \in Workers : LoadScaler(t)
    \/ \E t \in Workers : Assign(t)
    \/ \E t \in Workers : Return(t)
    \/ TrainStart
    \/ TrainOpen
    \/ TrainDump

Spec == Init /\ [][Next]_vars

(***************************************************************************)
(* DatabaseConnection.execute_query (backend/utils/db.py)                  *)
(***************************************************************************)
Modes == {"fetch_one", "fetch_all", "commit"}

\* How the last call of c ended: returned, raised inside the with block, or
\* raised by mysql.connector.connect with no connection made ("unreachable")
Outcome(c) ==
    IF dbout[c] = "raised" /\ conn[c] = "none" THEN "unreachable" ELSE dbout[c]

\* execute_query raised into the handler: its `except Exception` answers 500
\* (cases.py lines 73-74); otherwise the handler goes on with the result
HandlerStatus(c) ==
    IF dbout[c] = "raised" THEN 500
    ELSE IF dbout[c] = "returned" THEN 200
    ELSE -1

\* A handler calls execute_query(query, params, fetch_one, fetch_all)
DbCall(c, m) ==
    /\ dbpc[c] = "idle"
    /\ mode' = [mode EXCEPT ![c] = m]
    /\ conn' = [conn EXCEPT ![c] = "none"]
    /\ dbout' = [dbout EXCEPT ![c] = "none"]
    /\ dbpc' = [dbpc EXCEPT ![c] = "connect"]
    /\ attempts' = [attempts EXCEPT ![c] = 0]
    /\ prev' = [prev EXCEPT ![c] = Outcome(c)]
    /\ UNCHANGED dbUp
    /\ UNCHANGED predVars
    /\ UNCHANGED apiVars

\* Where a failed connect leaves the call: `except Error` prints and
\* re-raises (lines 28-30), so the finally clause is next.  The variant is a
\* connect that is tried again.
OnConnectErrorRetry == "connect"
OnConnectError == "finally"

\* mysql.connector.connect(...): yields the connection, or raises with
\* `connection` still None
DbConnect(c) ==
    /\ dbpc[c] = "connect"
    /\ attempts[c] < MaxAttempts
    /\ attempts' = [attempts EXCEPT ![c] = attempts[c] + 1]
    /\ IF dbUp
        THEN /\ conn' = [conn EXCEPT ![c] = "open"]
             /\ dbpc' = [dbpc EXCEPT ![c] = "cursor"]
             /\ dbout' = [dbout EXCEPT ![c] = "none"]
        ELSE /\ dbpc' = [dbpc EXCEPT ![c] = OnConnectError]
             /\ dbout' = [dbout EXCEPT ![c] = "raising"]
             /\ UNCHANGED conn
    /\ UNCHANGED <<mode, dbUp, prev>>
    /\ UNCHANGED predVars
    /\ UNCHANGED apiVars

\* The statement after `at` in the body of the with block
DbAfter(at, m) ==
    CASE at = "cursor" -> "execute"
      [] at = "execute" -> m
      [] at \in Modes -> "close_cursor"
      [] at = "close_cursor" -> "finally"

DbBody == {"cursor", "execute", "close_cursor"} \cup Modes

\* One statement of the body completes: connection.cursor, cursor.execute,
\* fetchone / fetchall / commit, cursor.close and the return
DbStep(c) ==
    /\ dbpc[c] \in DbBody
    /\ conn[c] = "open"
    /\ dbpc' = [dbpc EXCEPT ![c] = DbAfter(dbpc[c], mode[c])]
    /\ dbout' = [dbout EXCEPT ![c] =
                    IF dbpc[c] = "close_cursor" THEN "returning" ELSE dbout[c]]
    /\ UNCHANGED <<conn, mode, dbUp, attempts, prev>>
    /\ UNCHANGED predVars
    /\ UNCHANGED apiVars

\* One statement of the body raises (a bad statement, a lost connection):
\* the exception is thrown into get_connection at its yield.
DbStepFails(c) ==
    /\ dbpc[c] \in DbBody
    /\ dbpc' = [dbpc EXCEPT ![c] = "finally"]
    /\ dbout' = [dbout EXCEPT ![c] = "raising"]
    /\ UNCHANGED <<conn, mode, dbUp, attempts, prev>>
    /\ UNCHANGED predVars
    /\ UNCHANGED apiVars

\* A slip: the close placed after the yield instead of in the finally clause
ShouldCloseOnSuccess(c) == conn[c] = "open" /\ dbout[c] = "returning"

\* if connection and connection.is_connected()
ShouldClose(c) == conn[c] = "open"

\* The finally clause of get_connection, then the call exits
DbFinally(c) ==
    /\ dbpc[c] = "finally"
    /\ conn' = [conn EXCEPT ![c] = IF ShouldClose(c) THEN "closed" ELSE conn[c]]
    /\ dbout' = [dbout EXCEPT ![c] =
                    IF dbout[c] = "returning" THEN "returned" ELSE "raised"]
    /\ dbpc' = [dbpc EXCEPT ![c] = "idle"]
    /\ UNCHANGED <<mode, dbUp, attempts, prev>>
    /\ UNCHANGED predVars
    /\ UNCHANGED apiVars

\* The server goes away: every connection to it is lost
DbDown ==
    /\ dbUp
    /\ dbUp' = FALSE
    /\ conn' = [c \in Workers |-> IF conn[c] = "open" THEN "lost" ELSE conn[c]]
    /\ UNCHANGED <<dbpc, mode, dbout, attempts, prev>>
    /\ UNCHANGED predVars
    /\ UNCHANGED apiVars

DbBack ==
    /\ ~dbUp
    /\ dbUp' = TRUE
    /\ UNCHANGED <<conn, dbpc, mode, dbout, attempts, prev>>
    /\ UNCHANGED predVars
    /\ UNCHANGED apiVars

InitDb ==
    /\ files = Trained(1)
    /\ ServingIdle
    /\ DbIdle
    /\ ApiIdle

NextDb ==
    \/ \E c \in Workers, m \in Modes : DbCall(c, m)
    \/ \E c \in Workers : DbConnect(c)
    \/ \E c \in Workers : DbStep(c)
    \/ \E c \in Workers : DbStepFails(c)
    \/ \E c \in Workers : DbFinally(c)
    \/ DbDown
    \/ DbBack

SpecDb == InitDb /\ [][NextDb]_vars

(***************************************************************************)
(* The Case Store: tables daily_cases and dashboard_metrics, and etl.py    *)
(***************************************************************************)
\* One row of daily_cases, with the columns the queries read
Row(p, c, dt, conf, de, rec, act, reg) ==
    [province_state |-> p, country_region |-> c, date |-> dt,
     confirmed |-> conf, deaths |-> de, recovered |-> rec, active |-> act,
     who_region |-> reg]

\* The rows of the cleaned CSV the ETL job inserts: two dates, a country
\* reported by province, two countries level on confirmed, a country with
\* nothing confirmed and a row whose WHO region is blank.
RowPool ==
    { Row("", "Italy", 1, 100, 5, 50, 45, "Europe"),
      Row("", "Italy", 2, 200, 10, 100, 90, "Europe"),
      Row("", "Kenya", 2, 0, 0, 0, 0, "Africa"),
      Row("Hubei", "China", 2, 150, 10, 100, 40, "Western Pacific"),
      Row("Beijing", "China", 2, 50, 0, 50, 0, "Western Pacific"),
      Row("", "Diamond Princess", 2, 10, 1, 0, 9, "") }

\* SUM(col) over a set of rows
RECURSIVE SumCol(_, _)
SumCol(S, col) ==
    IF S = {} THEN 0
    ELSE LET r == CHOOSE x \in S : TRUE
         IN r[col] + SumCol(S \ {r}, col)

Dates(S) == {r.date : r \in S}
OnDate(S, dt) == {r \in S : r.date = dt}

\* SELECT MAX(date): NULL on an empty table
MaxDate(S) ==
    IF S = {} THEN Null
    ELSE Val(CHOOSE dt \in Dates(S) : \A e \in Dates(S) : e <= dt)

\* n / d rounded to the nearest integer, halves away from zero (MySQL ROUND
\* of an exact value) or to the even neighbour (Python round of a Decimal);
\* n >= 0 and d > 0
RoundHalfUp(n, d) == (2 * n + d) \div (2 * d)
RoundHalfEven(n, d) ==
    LET q == n \div d
        r == n % d
    IN IF 2 * r > d \/ (2 * r = d /\ q % 2 = 1) THEN q + 1 ELSE q

\* etl.py lines 241-242: ROUND((SUM(a) / SUM(b)) * 100, 2), in hundredths of
\* a percent.  MySQL divides by zero to NULL.
SqlRate(n, d) == IF d = 0 THEN Null ELSE Val(RoundHalfUp(n * 10000, d))

\* LAG(x) OVER (ORDER BY date): the date before dt among the grouped dates
PrevDates(S, dt) == {e \in Dates(S) : e < dt}
LagDate(S, dt) == CHOOSE e \in PrevDates(S, dt) : \A f \in PrevDates(S, dt) : f <= e
DailyNew(S, dt, col) ==
    IF PrevDates(S, dt) = {} THEN Null
    ELSE Val(SumCol(OnDate(S, dt), col) - SumCol(OnDate(S, LagDate(S, dt)), col))

\* etl.py lines 229-244: the SELECT of create_dashboard_metrics, one row per
\* date of daily_cases
MetricsRow(S, dt) ==
    [date |-> dt,
     total_confirmed |-> SumCol(OnDate(S, dt), "confirmed"),
     total_deaths |-> SumCol(OnDate(S, dt), "deaths"),
     total_recovered |-> SumCol(OnDate(S, dt), "recovered"),
     total_active |-> SumCol(OnDate(S, dt), "active"),
     daily_new_cases |-> DailyNew(S, dt, "confirmed"),
     daily_new_deaths |-> DailyNew(S, dt, "deaths"),
     global_mortality_rate |->
         SqlRate(SumCol(OnDate(S, dt), "deaths"), SumCol(OnDate(S, dt), "confirmed")),
     global_recovery_rate |->
         SqlRate(SumCol(OnDate(S, dt), "recovered"), SumCol(OnDate(S, dt), "confirmed"))]

\* lines 245-255: INSERT ... ON DUPLICATE KEY UPDATE, keyed by date
Upsert(T, new) ==
    {m \in T : m.date \notin {n.date : n \in new}} \cup new

\* some date of the table sums to no confirmed case
DividesByZero(S) == \E dt \in Dates(S) : SumCol(OnDate(S, dt), "confirmed") = 0

\* A statement of the ETL job has changed the store: the answer of an
\* earlier API request no longer describes it.
Forget == req' = NoRequest /\ ans' = NoAnswer

\* insert_daily_cases_batch, lines 68-106: a batch is inserted and committed.
\* It is step 1 of run_complete_etl, which has finished before step 6
\* fills dashboard_metrics.
InsertDailyCases ==
    /\ dashboard_metrics = {}
    /\ \E r \in RowPool \ daily_cases : daily_cases' = daily_cases \cup {r}
    /\ etl' = "ok"
    /\ Forget
    /\ UNCHANGED <<dashboard_metrics, tjob, erun>>
    /\ UNCHANGED <<predVars, dbVars>>

\* create_dashboard_metrics, lines 220-265.  A division by zero is NULL
\* with a warning, or, with ERROR_FOR_DIVISION_BY_ZERO in a strict sql_mode,
\* an error of the INSERT that run_complete_etl rolls back (lines 336-339).
CreateDashboardMetrics ==
    /\ daily_cases # {}
    /\ \E strict \in BOOLEAN :
        IF strict /\ DividesByZero(daily_cases)
            THEN /\ etl' = "Division by 0"
                 /\ UNCHANGED dashboard_metrics
            ELSE /\ etl' = "ok"
                 /\ dashboard_metrics' =
                        Upsert(dashboard_metrics,
                               {MetricsRow(daily_cases, dt) : dt \in Dates(daily_cases)})
    /\ Forget
    /\ UNCHANGED <<daily_cases, tjob, erun>>
    /\ UNCHANGED <<predVars, dbVars>>

(***************************************************************************)
(* The aggregation endpoints of routes/cases.py and routes/dashboard.py    *)
(***************************************************************************)
\* `if start_date:` on an optional query parameter
Given(p) == ~p.null

\* Every order of the elements of a finite set
RECURSIVE Orders(_)
Orders(S) ==
    IF S = {} THEN {<<>>}
    ELSE UNION {{<<x>> \o t : t \in Orders(S \ {x})} : x \in S}

\* ORDER BY col ASC / DESC: rows level on col come back in any order
OrderedAsc(S, col) ==
    {s \in Orders(S) : \A i \in 1..(Len(s) - 1) : s[i][col] <= s[i + 1][col]}
\* the variant: the ORDER BY clause left out
Unordered(S, col) == Orders(S)
OrderedDesc(S, col) ==
    {s \in Orders(S) : \A i \in 1..(Len(s) - 1) : s[i][col] >= s[i + 1][col]}

\* LIMIT n on an ordered result
Take(s, n) == IF Len(s) <= n THEN s ELSE SubSeq(s, 1, n)

\* The tables after the statements of an endpoint have run: every one is a
\* SELECT fetched with fetch_one or fetch_all (db.py lines 40-45), nothing
\* is committed.  The variant is an endpoint that clears what it has read.
AfterQueryCleared(e, T) == IF e = "metrics" THEN {} ELSE T
AfterQuery(e, T) == T

\* str(e) of the exception `latest_date.strftime` raises on None
NoneHasNoStrftime == "'NoneType' object has no attribute 'strftime'"

\* the variant: bounds that leave out the bounding dates themselves
CountryRowsExclusive(S, country, start_date, end_date) ==
    {r \in S : /\ r.country_region = country
               /\ Given(start_date) => r.date > start_date.v
               /\ Given(end_date) => r.date < end_date.v}

\* cases.py lines 24-47: the rows of one country, optionally date-bounded
CountryRows(S, country, start_date, end_date) ==
    {r \in S : /\ r.country_region = country
               /\ Given(start_date) => r.date >= start_date.v
               /\ Given(end_date) => r.date <= end_date.v}

\* GROUP BY date, country_region, and lines 53-60
CountryPoint(S, country, dt) ==
    [date |-> dt, country |-> country,
     confirmed |-> SumCol(OnDate(S, dt), "confirmed"),
     deaths |-> SumCol(OnDate(S, dt), "deaths"),
     recovered |-> SumCol(OnDate(S, dt), "recovered"),
     active |-> SumCol(OnDate(S, dt), "active")]

get_country_cases(S, country, start_date, end_date) ==
    LET rows == CountryRows(S, country, start_date, end_date)
        results == {CountryPoint(rows, country, dt) : dt \in Dates(rows)}
    IN IF results = {}
        THEN {Answer(404, "No data found for country", Null, <<>>)}
        ELSE {Answer(200, "success", Null, s) : s \in OrderedAsc(results, "date")}

\* cases.py line 93: WHERE date = %s AND who_region != ''
RegionRows(S, latest_date) ==
    IF latest_date.null THEN {}
    ELSE {r \in OnDate(S, latest_date.v) : r.who_region # ""}

\* GROUP BY who_region, and lines 102-110
RegionGroup(S, reg) ==
    LET rows == {r \in S : r.who_region = reg}
    IN [region |-> reg,
        confirmed |-> SumCol(rows, "confirmed"),
        deaths |-> SumCol(rows, "deaths"),
        recovered |-> SumCol(rows, "recovered"),
        active |-> SumCol(rows, "active")]

get_who_regions(S) ==
    LET latest_date == MaxDate(S)
        rows == RegionRows(S, latest_date)
        results == {RegionGroup(rows, reg) : reg \in {r.who_region : r \in rows}}
    IN IF latest_date.null
        THEN {Answer(500, NoneHasNoStrftime, Null, <<>>)}
        ELSE {Answer(200, "success", latest_date, s) : s \in OrderedDesc(results, "confirmed")}

\* dashboard.py lines 24-58: the row of the given date, or of the last date
MetricsResult(T, date_param) ==
    IF Given(date_param) THEN {m \in T : m.date = date_param.v}
    ELSE {m \in T : \A n \in T : n.date <= m.date}

\* `x if x else 0` on a nullable number
OrZero(x) == IF x.null \/ x.v = 0 THEN 0 ELSE x.v

\* lines 64-90
MetricsBody(m) ==
    [date |-> m.date,
     confirmed |-> m.total_confirmed, new_cases |-> OrZero(m.daily_new_cases),
     deaths |-> m.total_deaths, new_deaths |-> OrZero(m.daily_new_deaths),
     recovered |-> m.total_recovered, active |-> m.total_active,
     mortality_rate |-> m.global_mortality_rate.v,
     recovery_rate |-> m.global_recovery_rate.v]

get_dashboard_metrics(T, date_param) ==
    LET result == MetricsResult(T, date_param)
    IN IF result = {} THEN {Answer(404, "No data found", Null, <<>>)}
       ELSE {IF m.global_mortality_rate.null \/ m.global_recovery_rate.null
                THEN Answer(500, "float() argument must be a string or a real number, not 'NoneType'",
                            Null, <<>>)
                ELSE Answer(200, "success", Val(m.date), <<MetricsBody(m)>>)
             : m \in result}

\* lines 112-135: WHERE 1=1 and the optional date bounds
TimeseriesRows(T, start_date, end_date) ==
    {n \in T : /\ Given(start_date) => n.date >= start_date.v
               /\ Given(end_date) => n.date <= end_date.v}

\* lines 141-149
TimeseriesPoint(m) ==
    [date |-> m.date, confirmed |-> m.total_confirmed, deaths |-> m.total_deaths,
     recovered |-> m.total_recovered, active |-> m.total_active]

get_timeseries(T, start_date, end_date) ==
    LET results == {TimeseriesPoint(m) : m \in TimeseriesRows(T, start_date, end_date)}
    IN IF results = {} THEN {Answer(404, "No data found", Null, <<>>)}
       ELSE {Answer(200, "success", Null, s) : s \in OrderedAsc(results, "date")}

\* The limit and metric query parameters as sent ("absent": not sent)
LimitArgs == {"absent", "1", "2", "-1", "ten"}
MetricArgs == {"absent", "confirmed", "deaths", "recovered", "active", "cases"}

\* line 174: int(request.args.get('limit', 20)); int("ten") raises
IsInt(a) == a \in {"absent", "1", "2", "-1"}
DefaultLimit == 20
Limit(a) ==
    IF a = "absent" THEN DefaultLimit
    ELSE IF a = "1" THEN 1
    ELSE IF a = "2" THEN 2
    ELSE 0 - 1

\* lines 183-190: metric_column_map.get(metric, 'confirmed')
metric_columns == {"confirmed", "deaths", "recovered", "active"}
Column(metric) == IF metric \in metric_columns THEN metric ELSE "confirmed"

\* line 217, in hundredths of a percent
TopRate(total_deaths, total_confirmed) ==
    IF total_confirmed > 0 THEN RoundHalfEven(total_deaths * 10000, total_confirmed)
    ELSE 0

\* GROUP BY country_region, and lines 211-218
CountryGroup(S, c) ==
    LET rows == {r \in S : r.country_region = c}
    IN [country |-> c,
        confirmed |-> SumCol(rows, "confirmed"),
        deaths |-> SumCol(rows, "deaths"),
        recovered |-> SumCol(rows, "recovered"),
        active |-> SumCol(rows, "active"),
        mortality_rate |-> TopRate(SumCol(rows, "deaths"), SumCol(rows, "confirmed"))]

get_top_countries(S, limit_arg, metric) ==
    LET latest_date == MaxDate(S)
        rows == IF latest_date.null THEN {} ELSE OnDate(S, latest_date.v)
        results == {CountryGroup(rows, c) : c \in {r.country_region : r \in rows}}
    IN IF ~IsInt(limit_arg)
        THEN {Answer(500, "invalid literal for int() with base 10", Null, <<>>)}
       ELSE IF Limit(limit_arg) < 0
        THEN {Answer(500, "You have an error in your SQL syntax", Null, <<>>)}
       ELSE IF latest_date.null
        THEN {Answer(500, NoneHasNoStrftime, Null, <<>>)}
       ELSE {Answer(200, "success", latest_date, Take(s, Limit(limit_arg)))
                : s \in OrderedDesc(results, Column(metric))}

(***************************************************************************)
(* API requests against the store                                          *)
(***************************************************************************)
Countries == {"Italy", "China", "Atlantis"}
DateArgs == {Null, Val(1), Val(2), Val(3)}
Bounds == {Null, Val(1), Val(2)}

\* One request is answered as a whole; the ETL job runs between requests.
Answered(r, answers) ==
    /\ req' = r
    /\ ans' \in answers
    /\ daily_cases' = AfterQuery(r.endpoint, daily_cases)
    /\ dashboard_metrics' = AfterQuery(r.endpoint, dashboard_metrics)
    /\ UNCHANGED <<etl, tjob, erun>>
    /\ UNCHANGED <<predVars, dbVars>>

\* The handler the URL of request r is routed to, on the tables S and T
Handler(r, S, T) ==
    CASE r.endpoint = "country" ->
            get_country_cases(S, r.country, r.start_date, r.end_date)
      [] r.endpoint = "who-regions" -> get_who_regions(S)
      [] r.endpoint = "metrics" -> get_dashboard_metrics(T, r.date)
      [] r.endpoint = "timeseries" -> get_timeseries(T, r.start_date, r.end_date)
      [] r.endpoint = "top" -> get_top_countries(S, r.limit, r.metric)

\* The responses request r can get when sent with the header api_key
Respond(r, api_key, S, T) ==
    IF Admitted(r.endpoint, api_key) THEN Handler(r, S, T)
    ELSE {require_permission("access_api", api_key)}

\* A request with its header is answered
Served(r, api_key) ==
    Answered(r, Respond(r, api_key, daily_cases, dashboard_metrics))

GetCountryCases(api_key) ==
    \E c \in Countries, s \in Bounds, e \in Bounds :
        Served([endpoint |-> "country", country |-> c, start_date |-> s, end_date |-> e],
               api_key)

GetWhoRegions(api_key) == Served([endpoint |-> "who-regions"], api_key)

GetDashboardMetrics(api_key) ==
    \E d \in DateArgs : Served([endpoint |-> "metrics", date |-> d], api_key)

GetTimeseries(api_key) ==
    \E s \in Bounds, e \in Bounds :
        Served([endpoint |-> "timeseries", start_date |-> s, end_date |-> e], api_key)

GetTopCountries(api_key) ==
    \E l \in LimitArgs, m \in MetricArgs :
        Served([endpoint |-> "top", limit |-> l, metric |-> m], api_key)

\* A request to a handler wrapped by require_permission(p)
GatedRequest ==
    \E k \in ApiKeys, p \in Permissions :
        Answered([endpoint |-> "test-rbac", key |-> k, permission |-> p],
                 {require_permission(p, k)})

InitApi ==
    /\ files = Trained(1)
    /\ ServingIdle
    /\ DbIdle
    /\ ApiIdle

NextApi ==
    \/ InsertDailyCases
    \/ CreateDashboardMetrics
    \/ GetCountryCases("absent")
    \/ GetWhoRegions("absent")
    \/ GetDashboardMetrics("absent")
    \/ GetTimeseries("absent")
    \/ GetTopCountries("absent")
    \/ GatedRequest

SpecApi == InitApi /\ [][NextApi]_vars

\* One worker answering requests one after another, each sent with any
\* X-API-Key header, on a complete artifact directory and a store the ETL
\* job has filled.
WorkerIdle == pc["w1"] = "idle"

\* The headers the aggregation requests are sent with: none, an unknown
\* key, the key of a role without access_api and the key of admin
SentKeys == {"absent", "demo_api_key_root", "demo_api_key_public", "demo_api_key_admin"}

InitKeys ==
    /\ files = Trained(1)
    /\ ServingIdle
    /\ DbIdle
    /\ JobsIdle
    /\ daily_cases = RowPool
    /\ dashboard_metrics = {MetricsRow(RowPool, dt) : dt \in Dates(RowPool)}
    /\ etl = "ok"
    /\ req = NoRequest
    /\ ans = NoAnswer

NextKeys ==
    \/ \E k \in ApiKeys, d \in FewSnapshots : Receive("w1", "route", d, k)
    \/ \E k \in ApiKeys : Receive("w1", "metrics", Empty, k)
    \/ GetPredictor("w1")
    \/ LoadModel("w1")
    \/ LoadFeatures("w1")
    \/ LoadMetrics("w1")
    \/ LoadScaler("w1")
    \/ Assign("w1")
    \/ Return("w1")
    \/ \E k \in SentKeys : WorkerIdle /\ GetCountryCases(k)
    \/ \E k \in SentKeys : WorkerIdle /\ GetWhoRegions(k)
    \/ \E k \in SentKeys : WorkerIdle /\ GetDashboardMetrics(k)
    \/ \E k \in SentKeys : WorkerIdle /\ GetTimeseries(k)
    \/ \E k \in SentKeys : WorkerIdle /\ GetTopCountries(k)
    \/ WorkerIdle /\ GatedRequest

SpecKeys == InitKeys /\ [][NextKeys]_vars

(***************************************************************************)
(* One run of run_complete_etl (etl.py lines 272-345)                      *)
(***************************************************************************)
\* Rows of covid_19_clean_complete.csv in a run, and the rows of one
\* executemany batch (batch_size = 1000 in the script)
MaxCsv == 3
BatchSize == 2

\* The CSV files a run can be started on
CsvFiles == UNION {Orders(S) : S \in {R \in SUBSET RowPool : Cardinality(R) <= MaxCsv}}

\* The position after the last step: the function has returned or raised
Ended == 8

\* the variant: a rollback that also discards what was committed
RollbackAll(committed) == {}

\* line 338: connection.rollback() discards the uncommitted statements and
\* leaves the committed rows
Rollback(committed) == committed

EtlRest ==
    /\ UNCHANGED <<req, ans, tjob>>
    /\ UNCHANGED <<predVars, dbVars>>

\* lines 279-283: create_mysql_connection; without a connection the
\* function returns at once
EtlConnect ==
    /\ erun.step = 0
    /\ \E up \in BOOLEAN :
          erun' = IF up THEN [erun EXCEPT !.step = 1, !.connection = "open"]
                  ELSE [erun EXCEPT !.step = Ended, !.error = "connect"]
    /\ UNCHANGED <<daily_cases, dashboard_metrics, etl>>
    /\ EtlRest

\* step 1, insert_daily_cases_batch line 102: cursor.executemany of the
\* next batch, not yet committed
EtlExecuteBatch ==
    /\ erun.step = 1
    /\ erun.connection = "open"
    /\ erun.pending = {}
    /\ erun.csv # <<>>
    /\ LET batch == Take(erun.csv, BatchSize)
       IN erun' = [erun EXCEPT
                     !.pending = {batch[i] : i \in 1..Len(batch)},
                     !.csv = SubSeq(erun.csv, Len(batch) + 1, Len(erun.csv))]
    /\ UNCHANGED <<daily_cases, dashboard_metrics, etl>>
    /\ EtlRest

\* line 103: connection.commit() after each batch
EtlCommitBatch ==
    /\ erun.step = 1
    /\ erun.connection = "open"
    /\ erun.pending # {}
    /\ daily_cases' = daily_cases \cup erun.pending
    /\ erun' = [erun EXCEPT !.pending = {}]
    /\ UNCHANGED <<dashboard_metrics, etl>>
    /\ EtlRest

\* lines 105-106: the loop over the batches has ended
EtlInserted ==
    /\ erun.step = 1
    /\ erun.connection = "open"
    /\ erun.pending = {}
    /\ erun.csv = <<>>
    /\ erun' = [erun EXCEPT !.step = 2, !.done = Append(erun.done, 1)]
    /\ UNCHANGED <<daily_cases, dashboard_metrics, etl>>
    /\ EtlRest

\* steps 2 to 5, lines 290-313: the three time-series tables and
\* training_data, tables no endpoint modelled here reads
EtlInsertOther ==
    /\ erun.step \in 2..5
    /\ erun.connection = "open"
    /\ erun' = [erun EXCEPT !.step = erun.step + 1, !.done = Append(erun.done, erun.step)]
    /\ UNCHANGED <<daily_cases, dashboard_metrics, etl>>
    /\ EtlRest

\* A database error in the try block, lines 336-344: the except branch rolls
\* back, the finally branch closes the connection if it is still connected.
EtlFails(msg) ==
    /\ \E lost \in BOOLEAN :
          erun' = [erun EXCEPT !.step = Ended, !.pending = {}, !.error = msg,
                               !.connection = IF lost THEN "lost" ELSE "closed"]
    /\ daily_cases' = Rollback(daily_cases)
    /\ dashboard_metrics' = Rollback(dashboard_metrics)

\* step 6, line 317: create_dashboard_metrics
EtlCreateMetrics ==
    /\ erun.step = 6
    /\ erun.connection = "open"
    /\ \E strict \in BOOLEAN :
          IF strict /\ DividesByZero(daily_cases)
            THEN /\ EtlFails("Division by 0")
                 /\ etl' = "Division by 0"
            ELSE /\ dashboard_metrics' =
                        Upsert(dashboard_metrics,
                               {MetricsRow(daily_cases, dt) : dt \in Dates(daily_cases)})
                 /\ erun' = [erun EXCEPT !.step = 7, !.done = Append(erun.done, 6)]
                 /\ etl' = "ok"
                 /\ UNCHANGED daily_cases
    /\ EtlRest

\* lines 319-334 and the finally branch: the summary counts, then the close
EtlSummary ==
    /\ erun.step = 7
    /\ erun.connection = "open"
    /\ erun' = [erun EXCEPT !.step = Ended, !.connection = "closed"]
    /\ UNCHANGED <<daily_cases, dashboard_metrics, etl>>
    /\ EtlRest

\* A statement or a commit of any step raises mysql.connector.Error
EtlError ==
    /\ erun.step \in 1..7
    /\ erun.connection = "open"
    /\ EtlFails("Error")
    /\ UNCHANGED etl
    /\ EtlRest

InitEtl ==
    /\ files = Trained(1)
    /\ ServingIdle
    /\ DbIdle
    /\ tjob = TrainingNotRun
    /\ \E c \in CsvFiles : erun = [EtlNotRun EXCEPT !.rows = c, !.csv = c]
    /\ daily_cases = {}
    /\ dashboard_metrics = {}
    /\ etl = "none"
    /\ req = NoRequest
    /\ ans = NoAnswer

NextEtl ==
    \/ EtlConnect
    \/ EtlExecuteBatch
    \/ EtlCommitBatch
    \/ EtlInserted
    \/ EtlInsertOther
    \/ EtlCreateMetrics
    \/ EtlSummary
    \/ EtlError

SpecEtl == InitEtl /\ [][NextEtl]_vars

(***************************************************************************)
(* train_model.py: the corpus, the label and the rows kept for training    *)
(***************************************************************************)
\* Countries of the training corpus, in the order sort_values puts them
TrainCountries == <<"Italy", "Kenya">>
CountryRank(c) == CHOOSE i \in 1..Len(TrainCountries) : TrainCountries[i] = c

\* Longest series of the first and of the second country
MaxSeriesA == 4
MaxSeriesB == 2

\* (confirmed, deaths) of a daily_cases row: three the query loads, with
\* mortality rates 0, 5 and 2.5, and one its WHERE clause leaves out
Counts == {<<200, 0>>, <<200, 10>>, <<400, 10>>, <<50, 1>>}

\* The series of one country: its rows of dates 1..n
SeriesOf(c, f) ==
    {Row("", c, dt, f[dt][1], f[dt][2], 0, f[dt][1] - f[dt][2], "Europe") : dt \in DOMAIN f}

\* The tables train_model.py can be run on
TrainStores ==
    {SeriesOf(TrainCountries[1], a) \cup SeriesOf(TrainCountries[2], b) :
        a \in UNION {[1..n -> Counts] : n \in 0..MaxSeriesA},
        b \in UNION {[1..n -> Counts] : n \in 0..MaxSeriesB}}

\* lines 41-53: WHERE dc.confirmed > 100 AND dc.deaths >= 0
Loaded(S) == {r \in S : r.confirmed > 100 /\ r.deaths >= 0}

\* A row of the data frame: the loaded columns and the derived ones (NaN
\* until computed)
Frame(r) ==
    [country_region |-> r.country_region, date |-> r.date,
     confirmed |-> r.confirmed, deaths |-> r.deaths,
     mortality_rate |-> Null, high_mortality_risk |-> 0,
     confirmed_lag2 |-> Null, deaths_lag2 |-> Null,
     confirmed_rolling_14d |-> Null]

\* ORDER BY dc.date, dc.country_region / sort_values(['country_region', 'date'])
ByDateCountry(r, q) ==
    r.date < q.date \/ (r.date = q.date /\ CountryRank(r.country_region) <= CountryRank(q.country_region))
ByCountryDate(r, q) ==
    CountryRank(r.country_region) < CountryRank(q.country_region)
        \/ (r.country_region = q.country_region /\ r.date <= q.date)

RECURSIVE SortRows(_, _)
SortRows(S, byCountry) ==
    IF S = {} THEN <<>>
    ELSE LET first == CHOOSE r \in S : \A q \in S :
                          IF byCountry THEN ByCountryDate(r, q) ELSE ByDateCountry(r, q)
         IN <<first>> \o SortRows(S \ {first}, byCountry)

\* line 73-74: deaths / confirmed * 100, NaN and infinity replaced by 0; in
\* thousandths of a percent
TrainRate(de, conf) == IF conf = 0 THEN 0 ELSE (de * 100 * Unit) \div conf

\* Ascending order of a bag of numbers given as a sequence
RECURSIVE SortNums(_)
SortNums(x) ==
    IF x = <<>> THEN <<>>
    ELSE LET i == CHOOSE j \in 1..Len(x) : \A k \in 1..Len(x) : x[j] <= x[k]
         IN <<x[i]>> \o SortNums([k \in 1..(Len(x) - 1) |-> IF k < i THEN x[k] ELSE x[k + 1]])

\* line 77: Series.quantile(0.6): linear interpolation between the order
\* statistics around position 0.6 * (n - 1); NaN for an empty series.
\* QuantileTenths is the 0.6.
QuantileTenths == 6
Quantile(x) ==
    IF x = <<>> THEN Null
    ELSE LET v == SortNums(x)
             h == QuantileTenths * (Len(x) - 1)
             lo == (h \div 10) + 1
             hi == IF lo < Len(x) THEN lo + 1 ELSE lo
         IN Val(v[lo] + ((h % 10) * (v[hi] - v[lo])) \div 10)

\* the variant: rows level with the threshold labelled high
LabelInclusive(rate, threshold) ==
    IF threshold.null THEN 0 ELSE IF rate >= threshold.v THEN 1 ELSE 0

\* line 81: (mortality_rate > mortality_threshold).astype(int); a comparison
\* with NaN is False
Label(rate, threshold) ==
    IF threshold.null THEN 0 ELSE IF rate > threshold.v THEN 1 ELSE 0

\* Zero-based position of row i within the rows of its country (cumcount)
Position(df, i) ==
    Cardinality({j \in 1..(i - 1) : df[j].country_region = df[i].country_region})

\* The row of the same country k positions before row i
Earlier(df, i, k) ==
    CHOOSE j \in 1..i : /\ df[j].country_region = df[i].country_region
                        /\ Position(df, j) = Position(df, i) - k

\* lines 87-90: groupby('country_region')[col].shift(2)
LagSteps == 2
Shifted(df, i, col) ==
    IF Position(df, i) >= LagSteps THEN Val(df[Earlier(df, i, LagSteps)][col]) ELSE Null

\* lines 98-100: rolling(14, min_periods=3).mean() within the country, in
\* thousandths
RollingWindow == 14
MinPeriods == 3
RECURSIVE WindowSum(_, _, _, _)
WindowSum(df, i, k, col) ==
    IF k = 0 THEN 0
    ELSE df[Earlier(df, i, k - 1)][col] + WindowSum(df, i, k - 1, col)
Rolling(df, i, col) ==
    LET n == IF Position(df, i) + 1 < RollingWindow THEN Position(df, i) + 1
             ELSE RollingWindow
    IN IF n < MinPeriods THEN Null
       ELSE Val((WindowSum(df, i, n, col) * Unit) \div n)

\* the variant: the dropna left out
IncompleteNever(r) == FALSE

\* lines 140-143: dropna(subset=['confirmed_lag2', 'deaths_lag2',
\* 'confirmed_rolling_14d'])
Incomplete(r) ==
    r.confirmed_lag2.null \/ r.deaths_lag2.null \/ r.confirmed_rolling_14d.null

RECURSIVE Dropna(_)
Dropna(df) ==
    IF df = <<>> THEN <<>>
    ELSE (IF Incomplete(Head(df)) THEN <<>> ELSE <<Head(df)>>) \o Dropna(Tail(df))

TrainStep(from, to) ==
    /\ tjob.step = from
    /\ UNCHANGED <<daily_cases, dashboard_metrics, etl, req, ans, erun>>
    /\ UNCHANGED <<predVars, dbVars>>

\* lines 30-64: pd.read_sql
TrainRead ==
    /\ TrainStep("start", "read")
    /\ tjob' = [tjob EXCEPT !.step = "read",
                            !.df = SortRows({Frame(r) : r \in Loaded(daily_cases)}, FALSE)]

\* line 70: df.sort_values(['country_region', 'date'])
TrainSort ==
    /\ TrainStep("read", "sorted")
    /\ tjob' = [tjob EXCEPT !.step = "sorted",
                            !.df = SortRows({tjob.df[i] : i \in 1..Len(tjob.df)}, TRUE)]

\* lines 73-81: the rate, the threshold and the label of every loaded row
TrainTarget ==
    /\ TrainStep("sorted", "labelled")
    /\ LET rates == [i \in 1..Len(tjob.df) |->
                        TrainRate(tjob.df[i].deaths, tjob.df[i].confirmed)]
           threshold == Quantile(rates)
       IN tjob' = [tjob EXCEPT
                     !.step = "labelled",
                     !.threshold = threshold,
                     !.df = [i \in 1..Len(tjob.df) |->
                               [tjob.df[i] EXCEPT
                                  !.mortality_rate = Val(rates[i]),
                                  !.high_mortality_risk = Label(rates[i], threshold)]]]

\* lines 86-138: the lags and the rolling mean that decide which rows stay
TrainEngineer ==
    /\ TrainStep("labelled", "engineered")
    /\ tjob' = [tjob EXCEPT
                  !.step = "engineered",
                  !.df = [i \in 1..Len(tjob.df) |->
                            [tjob.df[i] EXCEPT
                               !.confirmed_lag2 = Shifted(tjob.df, i, "confirmed"),
                               !.deaths_lag2 = Shifted(tjob.df, i, "deaths"),
                               !.confirmed_rolling_14d = Rolling(tjob.df, i, "confirmed")]]]

\* lines 140-143
TrainDropna ==
    /\ TrainStep("engineered", "cleaned")
    /\ tjob' = [tjob EXCEPT !.step = "cleaned", !.df_clean = Dropna(tjob.df)]

InitTrain ==
    /\ files = Trained(1)
    /\ ServingIdle
    /\ DbIdle
    /\ JobsIdle
    /\ daily_cases \in TrainStores
    /\ dashboard_metrics = {}
    /\ etl = "ok"
    /\ req = NoRequest
    /\ ans = NoAnswer

NextTrain ==
    \/ TrainRead
    \/ TrainSort
    \/ TrainTarget
    \/ TrainEngineer
    \/ TrainDropna

SpecTrain == InitTrain /\ [][NextTrain]_vars

(***************************************************************************)
(* Properties                                                              *)
(***************************************************************************)
\* A finished call of worker t
Done(t) == pc[t] = "idle" /\ resp[t].status # -1

\* C1: a snapshot lacking `confirmed` or `deaths` is rejected with an error
\* naming what is missing, before any feature is computed and before the
\* classifier scores anything, by the route and by predict itself.
C1_MissingFieldRejected ==
    \A t \in Workers :
        (Done(t) /\ missing_fields(data[t]) # <<>>
            /\ (kind[t] = "route" \/ (kind[t] = "direct" /\ resp[t].by # "none")))
            => /\ ~resp[t].ok
               /\ resp[t].built = <<>>
               /\ ~resp[t].scored
               /\ resp[t].message \in {"Missing required fields", "No data provided"}

\* C2: the risk level is a step function of the score alone (at most 0.4
\* LOW, above 0.4 and at most 0.7 MEDIUM, above 0.7 HIGH), and the level
\* fixes the colour and the advisory text.
C2_RiskBanding ==
    \A t \in Workers :
        resp[t].ok =>
            LET r == resp[t].prediction IN
            /\ (r.risk_score <= 4) => r.risk_level = "LOW"
            /\ (r.risk_score > 4 /\ r.risk_score <= 7) => r.risk_level = "MEDIUM"
            /\ (r.risk_score > 7) => r.risk_level = "HIGH"
            /\ r.risk_level = "LOW" =>
                   r.risk_color = "green" /\ r.recommendation = "Low mortality risk."
            /\ r.risk_level = "MEDIUM" =>
                   r.risk_color = "orange" /\ r.recommendation = "Moderate mortality risk."
            /\ r.risk_level = "HIGH" =>
                   r.risk_color = "red"
                   /\ r.recommendation = "High mortality risk detected."

\* a score of exactly 0.7 was banded MEDIUM
C2_Witness ==
    \E t \in Workers :
        /\ resp[t].ok
        /\ resp[t].prediction.risk_score = 7
        /\ resp[t].prediction.risk_level = "MEDIUM"

\* C3: with confirmed = 0 the returned mortality_rate is exactly 0, whatever
\* deaths is, and no call ends in a division by zero.
C3_ZeroConfirmed ==
    \A t \in Workers :
        Done(t) =>
            /\ resp[t].message # "ZeroDivisionError"
            /\ (resp[t].ok /\ Has(data[t], "confirmed") /\ data[t]["confirmed"] = 0)
                => resp[t].prediction.mortality_rate = [err |-> FALSE, num |-> 0, den |-> 1]

\* predict returned for confirmed = 0 and deaths = 50
C3_Witness ==
    \E t \in Workers :
        /\ resp[t].ok
        /\ Has(data[t], "confirmed") /\ data[t]["confirmed"] = 0
        /\ Has(data[t], "deaths") /\ data[t]["deaths"] = 50

\* C4: a 200 response of the route carries a risk level of LOW, MEDIUM or
\* HIGH, a score within [0, 1] and, for confirmed > 0, the mortality rate
\* deaths / confirmed * 100 of the submitted values (5.0 for 1000 and 50).
C4_SuccessShape ==
    \A t \in Workers :
        (Done(t) /\ kind[t] = "route" /\ resp[t].status = 200) =>
            LET r == resp[t].prediction
                d == data[t]
            IN /\ r.risk_level \in {"LOW", "MEDIUM", "HIGH"}
               /\ r.risk_score >= 0 /\ r.risk_score <= ProbScale
               /\ Has(d, "confirmed") /\ Has(d, "deaths")
               /\ d["confirmed"] > 0 =>
                    /\ r.mortality_rate.den > 0
                    /\ r.mortality_rate.num * d["confirmed"]
                          = r.mortality_rate.den * d["deaths"] * 100
               /\ (d["confirmed"] = 1000 /\ d["deaths"] = 50) =>
                    r.mortality_rate = [err |-> FALSE, num |-> 5, den |-> 1]

\* the route answered 200 to confirmed = 1000, deaths = 50 with rate 5.0
C4_Witness ==
    \E t \in Workers :
        /\ Done(t) /\ kind[t] = "route" /\ resp[t].status = 200
        /\ data[t]["confirmed"] = 1000 /\ data[t]["deaths"] = 50
        /\ resp[t].prediction.mortality_rate.num = 5
        /\ resp[t].prediction.mortality_rate.den = 1

\* C5: load_model never completes with one of the four blobs (classifier,
\* scaler, feature names, metrics) missing.
C5_LoadNeedsAllFour ==
    \A t \in Workers :
        pc[t] = "assign" =>
            /\ obj[t].model # None
            /\ obj[t].feature_columns # None
            /\ obj[t].metrics # None
            /\ obj[t].scaler # None

\* C6: within one serving process the artifact is loaded at most once, and
\* the global predictor, once set, is never assigned again.
C6_LoadedOnce == loads <= 1

\* C7: whenever an execute_query call has exited, by return or by raise,
\* the connection it opened is no longer open.
C7_ConnectionReleased ==
    \A c \in Workers : dbpc[c] = "idle" => conn[c] # "open"

\* a call that opened a connection and then raised has closed it
C7_Witness ==
    \E c \in Workers :
        dbpc[c] = "idle" /\ dbout[c] = "raised" /\ conn[c] = "closed"

\* C8: predict never scores a vector when the loaded artifact disagrees
\* with it in shape (feature-name list, scaler or classifier not built for
\* the 19 slots of the vector); it fails instead.
C8_SchemaMismatchFails ==
    \A t \in Workers :
        (Done(t) /\ resp[t].scored) =>
            resp[t].features_count = Len(resp[t].built)

\* C9: the vector prepare_features builds has exactly 19 slots, and slot i
\* holds the feature named by entry i of the training feature_columns.
C9_FeatureOrder ==
    \A t \in Workers :
        resp[t].built # <<>> =>
            /\ Len(resp[t].built) = 19
            /\ Len(feature_columns) = 19
            /\ \A i \in 1..19 :
                   resp[t].built[i] = NamedFeature(feature_columns[i], data[t])

\* a vector was built from a snapshot with caller-supplied history whose
\* first two slots differ
C9_Witness ==
    \E t \in Workers :
        /\ Len(resp[t].built) = 19
        /\ Has(data[t], "deaths_lag2")
        /\ resp[t].built[1] # resp[t].built[2]

C11_NoSideEffects ==
    [][\A t \in Workers :
          (pc[t] \in {"get", "return"} /\ pc'[t] = "idle")
              => /\ data'[t] = data[t]
                 /\ predictor' = predictor
                 /\ get_metrics(predictor') = get_metrics(predictor)]_vars

\* a direct predict call on a snapshot without recovered has raised on a
\* loaded predictor
C11_Witness ==
    \E t \in Workers :
        /\ Done(t) /\ kind[t] = "direct" /\ resp[t].by # "none"
        /\ ~resp[t].ok /\ resp[t].message # ""
        /\ ~Has(data[t], "recovered")
        /\ predictor # NoPredictor

\* C12: whenever loading the artifact or any step of predict raises, the
\* answer of POST /mortality is an error with HTTP 500 and no prediction;
\* 200 with a prediction is answered only when predict returned normally.
C12_ErrorsAre500 ==
    \A t \in Workers :
        (Done(t) /\ kind[t] = "route") =>
            /\ resp[t].status \in {200, 400, 500}
            /\ (resp[t].status = 200) <=> resp[t].ok
            /\ (resp[t].status = 200) <=> (resp[t].prediction # NoResult)
            /\ (resp[t].status = 200) => resp[t].message = "success"
            /\ (Validate(data[t]) = NoResponse /\ ~resp[t].ok)
                   => resp[t].status = 500 /\ resp[t].message # "success"
            /\ (files["model"].st # "blob" /\ resp[t].by = "none"
                    /\ Validate(data[t]) = NoResponse)
                   => resp[t].status = 500

\* the route answered 500 after predict raised on a loaded predictor
C12_Witness ==
    \E t \in Workers :
        /\ Done(t) /\ kind[t] = "route"
        /\ resp[t].status = 500 /\ resp[t].by # "none"
        /\ resp[t].prediction = NoResult

\* No row of the store matches the request answered last
NoMatch ==
    \/ /\ req.endpoint = "country"
       /\ CountryRows(daily_cases, req.country, req.start_date, req.end_date) = {}
    \/ /\ req.endpoint = "who-regions"
       /\ RegionRows(daily_cases, MaxDate(daily_cases)) = {}
    \/ /\ req.endpoint = "top"
       /\ IsInt(req.limit) /\ Limit(req.limit) >= 0
       /\ daily_cases = {}
    \/ /\ req.endpoint = "metrics"
       /\ MetricsResult(dashboard_metrics, req.date) = {}
    \/ /\ req.endpoint = "timeseries"
       /\ TimeseriesRows(dashboard_metrics, req.start_date, req.end_date) = {}

\* C13: every aggregation endpoint (country series, WHO-region rollup,
\* top-N, dashboard metrics, timeseries) answers 404 when no row of the
\* store matches the request, the empty store included, and never a 500
\* made from an exception.
C13_NoMatchIsNotFound == NoMatch => ans.status = 404

\* C14: the WHO-region rollup answered is the group-by-region of the rows
\* of the reported date: every region value with a row on that date, the
\* unspecified one included, appears exactly once, with the sums of
\* confirmed, deaths, recovered and active over the rows of that date and
\* region, and nothing else appears.
C14_RegionRollup ==
    (req.endpoint = "who-regions" /\ ans.status = 200) =>
        LET rows == OnDate(daily_cases, ans.date.v)
            of(reg) == {r \in rows : r.who_region = reg}
        IN /\ ans.date = MaxDate(daily_cases)
           /\ \A i \in 1..Len(ans.data) : of(ans.data[i].region) # {}
           /\ \A reg \in {r.who_region : r \in rows} :
                 /\ Cardinality({i \in 1..Len(ans.data) : ans.data[i].region = reg}) = 1
                 /\ \A i \in 1..Len(ans.data) :
                        ans.data[i].region = reg =>
                            /\ ans.data[i].confirmed = SumCol(of(reg), "confirmed")
                            /\ ans.data[i].deaths = SumCol(of(reg), "deaths")
                            /\ ans.data[i].recovered = SumCol(of(reg), "recovered")
                            /\ ans.data[i].active = SumCol(of(reg), "active")

\* C15: a top-N answer for limit N and metric m among confirmed, deaths,
\* recovered and active lists at most N countries, each once and each with
\* a row on the latest date of the store, in non-increasing order of their
\* total of m on that date, and no country left out has a strictly greater
\* total of m than a country listed.
C15_TopCountries ==
    (req.endpoint = "top" /\ req.metric \in metric_columns /\ ans.status = 200) =>
        LET m == req.metric
            rows == OnDate(daily_cases, ans.date.v)
            total(c) == SumCol({r \in rows : r.country_region = c}, m)
            listed == {ans.data[i].country : i \in 1..Len(ans.data)}
            all == {r.country_region : r \in rows}
        IN /\ ans.date = MaxDate(daily_cases)
           /\ Len(ans.data) <= Limit(req.limit)
           /\ ans.count = Len(ans.data)
           /\ Cardinality(listed) = Len(ans.data)
           /\ listed \subseteq all
           /\ Len(ans.data) = Limit(req.limit) \/ listed = all
           /\ \A i \in 1..Len(ans.data) : ans.data[i][m] = total(ans.data[i].country)
           /\ \A i \in 1..(Len(ans.data) - 1) :
                  total(ans.data[i].country) >= total(ans.data[i + 1].country)
           /\ \A c \in all \ listed : \A d \in listed : total(c) <= total(d)

\* of four countries on the latest date the highest by deaths was answered
\* for limit 1, and a country level with it was left out
C15_Witness ==
    /\ req.endpoint = "top" /\ req.limit = "1" /\ req.metric = "deaths"
    /\ ans.status = 200 /\ Len(ans.data) = 1
    /\ Cardinality({r.country_region : r \in OnDate(daily_cases, 2)}) = 4
    /\ \E r \in daily_cases :
          /\ r.date = 2
          /\ ans.data[1].country # r.country_region
          /\ SumCol({x \in OnDate(daily_cases, 2) : x.country_region = r.country_region}, "deaths")
                = ans.data[1].deaths

\* C16: a top-N request whose metric is sent and is not one of confirmed,
\* deaths, recovered, active is refused as invalid input (400); it is never
\* answered with the ranking of another metric.
C16_InvalidMetricRefused ==
    (/\ req.endpoint = "top"
     /\ req.metric \notin metric_columns \cup {"absent"}
     /\ IsInt(req.limit) /\ Limit(req.limit) >= 0
     /\ daily_cases # {})
        => ans.status = 400 /\ ans.data = <<>>

\* C17: no rate fails or is NULL on a zero denominator; each is 0 then: the
\* mortality_rate of a top-N country with nothing confirmed, and the
\* global_mortality_rate and global_recovery_rate the ETL job stores for a
\* date with nothing confirmed, which the metrics endpoint then answers.
C17_RatesTolerateZero ==
    /\ etl # "Division by 0"
    /\ \A m \in dashboard_metrics :
          m.total_confirmed = 0 =>
              /\ m.global_mortality_rate = Val(0)
              /\ m.global_recovery_rate = Val(0)
    /\ (req.endpoint = "metrics" /\ MetricsResult(dashboard_metrics, req.date) # {})
          => /\ ans.status = 200
             /\ ans.data[1].confirmed = 0 =>
                    ans.data[1].mortality_rate = 0 /\ ans.data[1].recovery_rate = 0
    /\ (req.endpoint = "top" /\ ans.status = 200) =>
          \A i \in 1..Len(ans.data) :
              ans.data[i].confirmed = 0 => ans.data[i].mortality_rate = 0

\* C18: the handler wrapped by require_permission(p) runs exactly when the
\* X-API-Key is that of a known user whose role is in ROLES with p or 'all'
\* among its permissions; without a known key the answer is 401
\* AUTH_REQUIRED, with a known key lacking p it is 403 PERMISSION_DENIED, and
\* in both refusals the handler has not run and request.current_user is
\* not set.
C18_GateDecides ==
    req.endpoint = "test-rbac" =>
        LET known == req.key \in DOMAIN MOCK_USERS
            allowed == /\ known
                       /\ MOCK_USERS[req.key].role \in DOMAIN ROLES
                       /\ \/ req.permission \in ROLES[MOCK_USERS[req.key].role]
                          \/ "all" \in ROLES[MOCK_USERS[req.key].role]
        IN /\ ans.handler_ran <=> allowed
           /\ ~known => ans.status = 401 /\ ans.message = "AUTH_REQUIRED"
           /\ (known /\ ~allowed) =>
                  ans.status = 403 /\ ans.message = "PERMISSION_DENIED"
           /\ ~ans.handler_ran => ans.current_user = NoUser
           /\ ans.handler_ran => ans.current_user = MOCK_USERS[req.key]

\* the admin key, whose role lists only 'all', reached the handler wrapped
\* with access_api
C18_Witness ==
    /\ req.endpoint = "test-rbac"
    /\ req.key = "demo_api_key_admin" /\ req.permission = "access_api"
    /\ ans.handler_ran
    /\ ans.current_user.role = "admin"

\* C19: no API request changes the Case Store: a step that answers a
\* request leaves daily_cases and dashboard_metrics as they were, so only
\* the statements of the ETL job change them.
C19_ApiReadsOnly ==
    [][req' # NoRequest =>
          /\ daily_cases' = daily_cases
          /\ dashboard_metrics' = dashboard_metrics]_vars

\* the metrics endpoint has answered from a filled store
C19_Witness ==
    /\ req.endpoint = "metrics" /\ ans.status = 200
    /\ daily_cases # {}
    /\ dashboard_metrics # {}

\* C20: a failed store connection fails the one request that attempted it.
\* A call makes a single connection attempt; when the store is unreachable
\* the call goes straight to its exit and raises, the handler answers 500,
\* no connection is left and no other caller is touched; and the next call
\* of the same caller attempts afresh and gets its connection whenever the
\* store is reachable, however the call before it ended.
C20_FailedConnectFailsOneRequest ==
    [][\A c \in Workers :
          LET connects == dbpc[c] = "connect" /\ attempts'[c] # attempts[c]
          IN /\ attempts'[c] <= 1
             /\ (connects /\ ~dbUp) =>
                    /\ dbpc'[c] = "finally"
                    /\ dbout'[c] = "raising"
                    /\ conn'[c] = "none"
                    /\ \A d \in Workers \ {c} :
                           /\ conn'[d] = conn[d]
                           /\ dbpc'[d] = dbpc[d]
                           /\ dbout'[d] = dbout[d]
             /\ (connects /\ dbUp) =>
                    /\ conn'[c] = "open"
                    /\ dbpc'[c] = "cursor"
             /\ (dbpc[c] = "finally" /\ dbpc'[c] = "idle" /\ conn[c] = "none") =>
                    /\ dbout'[c] = "raised"
                    /\ HandlerStatus(c)' = 500
                    /\ conn'[c] = "none"
                    /\ attempts'[c] = 1]_vars

\* a caller whose call before could not connect has made a new call that
\* connected at its first attempt and returned
C20_Witness ==
    \E c \in Workers :
        /\ dbpc[c] = "idle"
        /\ prev[c] = "unreachable"
        /\ dbout[c] = "returned"
        /\ attempts[c] = 1
        /\ conn[c] = "closed"

\* C21: for a snapshot with no historical field, every lag slot of the
\* vector is 0.92 times the current count (confirmed, deaths, recovered,
\* active, an absent count being 0 and an absent active being confirmed -
\* deaths - recovered) and each volatility slot is half the absolute value
\* of current minus lag, on every call.
C21_HistoryDefaults ==
    \A t \in Workers :
        (resp[t].built # <<>>
            /\ DOMAIN data[t] \subseteq {"confirmed", "deaths", "recovered", "active"}) =>
            LET d == data[t]
                cur(k) == IF k \in DOMAIN d THEN d[k] * Unit ELSE 0
                act == IF "active" \in DOMAIN d THEN d["active"] * Unit
                       ELSE cur("confirmed") - cur("deaths") - cur("recovered")
                lag(x) == (x * 92) \div 100
                half(x) == (IF x < 0 THEN 0 - x ELSE x) \div 2
                b == resp[t].built
            IN /\ b[1] = Num(lag(cur("confirmed")))
               /\ b[2] = Num(lag(cur("deaths")))
               /\ b[3] = Num(lag(cur("recovered")))
               /\ b[4] = Num(lag(act))
               /\ b[11] = Num(half(cur("confirmed") - lag(cur("confirmed"))))
               /\ b[12] = Num(half(cur("deaths") - lag(cur("deaths"))))

\* the vector of {confirmed: 1000, deaths: 50} holds the lags 920 and 46 and
\* the volatilities 40 and 2
C21_Witness ==
    \E t \in Workers :
        /\ data[t] = [confirmed |-> 1000, deaths |-> 50]
        /\ Len(resp[t].built) = 19
        /\ resp[t].built[1] = Num(920 * Unit)
        /\ resp[t].built[2] = Num(46 * Unit)
        /\ resp[t].built[11] = Num(40 * Unit)
        /\ resp[t].built[12] = Num(2 * Unit)

\* The loaded series of country c: the rows the query loads, and the dates
\* of those that have at least two loaded rows of c before them
LoadedOf(c) == {r \in Loaded(daily_cases) : r.country_region = c}
KeptDates(c) ==
    {r.date : r \in {q \in LoadedOf(c) :
                        Cardinality({p \in LoadedOf(c) : p.date < q.date}) >= 2}}
CleanOf(c) ==
    {i \in 1..Len(tjob.df_clean) : tjob.df_clean[i].country_region = c}

\* C22: of every country's loaded series of n rows in date order, the
\* training set keeps exactly the rows at zero-based position 2 and beyond
\* (n - 2 rows, none for n <= 2), each once, and every kept row has its
\* 2-step lags and its 14-day rolling mean defined.
C22_FirstTwoDropped ==
    tjob.step = "cleaned" =>
        \A k \in 1..Len(TrainCountries) :
            LET c == TrainCountries[k]
                n == Cardinality(LoadedOf(c))
            IN /\ {tjob.df_clean[i].date : i \in CleanOf(c)} = KeptDates(c)
               /\ Cardinality(CleanOf(c)) = (IF n <= 2 THEN 0 ELSE n - 2)
               /\ \A i \in CleanOf(c) :
                      /\ ~tjob.df_clean[i].confirmed_lag2.null
                      /\ ~tjob.df_clean[i].deaths_lag2.null
                      /\ ~tjob.df_clean[i].confirmed_rolling_14d.null
                      /\ \E p \in LoadedOf(c) :
                            /\ Cardinality({q \in LoadedOf(c) :
                                   p.date < q.date /\ q.date < tjob.df_clean[i].date}) = 1
                            /\ tjob.df_clean[i].confirmed_lag2 = Val(p.confirmed)

\* a country with four stored rows of which the query loads three keeps
\* one row, while the other country with two rows keeps none
C22_Witness ==
    /\ tjob.step = "cleaned"
    /\ Cardinality({r \in daily_cases : r.country_region = TrainCountries[1]}) = 4
    /\ Cardinality(LoadedOf(TrainCountries[1])) = 3
    /\ Cardinality(CleanOf(TrainCountries[1])) = 1
    /\ Cardinality(LoadedOf(TrainCountries[2])) = 2
    /\ CleanOf(TrainCountries[2]) = {}

\* The mortality rates of all loaded rows of the table
CorpusRates ==
    LET rows == SortRows({Frame(r) : r \in Loaded(daily_cases)}, TRUE)
    IN [i \in 1..Len(rows) |-> TrainRate(rows[i].deaths, rows[i].confirmed)]

\* C23: the label threshold is the 60th percentile of mortality_rate over
\* all loaded rows of the corpus at hand (more than 0.6 (n - 1) rows lie at
\* or below it and more than 0.4 (n - 1) at or above), and a row is labelled 1 exactly
\* when its own rate is strictly greater; a row level with the threshold is
\* labelled 0; the rows kept for training carry these labels.
C23_LabelThreshold ==
    tjob.step \in {"labelled", "engineered", "cleaned"} =>
        LET n == Len(tjob.df)
            t == tjob.threshold
            rate(i) == tjob.df[i].mortality_rate.v
        IN /\ n = Cardinality(Loaded(daily_cases))
           /\ t = Quantile(CorpusRates)
           /\ t.null <=> n = 0
           /\ n > 0 =>
                /\ 10 * Cardinality({i \in 1..n : rate(i) <= t.v}) > 6 * (n - 1)
                /\ 10 * Cardinality({i \in 1..n : rate(i) >= t.v}) > 4 * (n - 1)
                /\ \A i \in 1..n :
                      /\ rate(i) * tjob.df[i].confirmed = tjob.df[i].deaths * 100 * Unit
                      /\ tjob.df[i].high_mortality_risk = 1 <=> rate(i) > t.v
                      /\ tjob.df[i].high_mortality_risk = 0 <=> rate(i) <= t.v
           /\ \A j \in 1..Len(tjob.df_clean) :
                  tjob.df_clean[j].high_mortality_risk = 1
                      <=> tjob.df_clean[j].mortality_rate.v > t.v

\* of five loaded rows one is level with the threshold and labelled 0, one
\* is above it and labelled 1, and a labelled row was kept for training
C23_Witness ==
    /\ tjob.step = "cleaned"
    /\ Len(tjob.df) = 5
    /\ \E i, j \in 1..Len(tjob.df) :
          /\ tjob.df[i].mortality_rate = tjob.threshold
          /\ tjob.df[i].high_mortality_risk = 0
          /\ tjob.df[j].high_mortality_risk = 1
    /\ \E k \in 1..Len(tjob.df_clean) : tjob.df_clean[k].high_mortality_risk = 1

\* dashboard_metrics describes daily_cases: one row per date, the sums of
\* the date, and the difference to the date before it
MetricsReflect ==
    /\ {m.date : m \in dashboard_metrics} = Dates(daily_cases)
    /\ Cardinality(dashboard_metrics) = Cardinality(Dates(daily_cases))
    /\ \A m \in dashboard_metrics :
          LET day == {r \in daily_cases : r.date = m.date}
              before == {r \in daily_cases : r.date < m.date}
              last == {r \in before : \A q \in before : q.date <= r.date}
          IN /\ m.total_confirmed = SumCol(day, "confirmed")
             /\ m.total_deaths = SumCol(day, "deaths")
             /\ m.total_recovered = SumCol(day, "recovered")
             /\ m.total_active = SumCol(day, "active")
             /\ before = {} => m.daily_new_cases = Null /\ m.daily_new_deaths = Null
             /\ before # {} =>
                   /\ m.daily_new_cases = Val(m.total_confirmed - SumCol(last, "confirmed"))
                   /\ m.daily_new_deaths = Val(m.total_deaths - SumCol(last, "deaths"))

\* create_dashboard_metrics has run on the store as it is
MetricsRan == dashboard_metrics # {} \/ etl = "Division by 0"

\* C24: after create_dashboard_metrics has run, dashboard_metrics has one
\* row per date of daily_cases with the sums of that date and the
\* differences to the preceding date, undefined for the earliest date, for
\* which the metrics endpoint answers new_cases = new_deaths = 0.
C24_MetricsPerDate ==
    /\ MetricsRan => MetricsReflect
    /\ (/\ MetricsRan
        /\ req.endpoint = "metrics"
        /\ Given(req.date)
        /\ req.date.v \in Dates(daily_cases)
        /\ \A d \in Dates(daily_cases) : req.date.v <= d)
          => /\ ans.status = 200
             /\ ans.data[1].new_cases = 0
             /\ ans.data[1].new_deaths = 0

\* The dates of a country within the bounds of the request, both inclusive
CountryDates ==
    {r.date : r \in {q \in daily_cases :
                        /\ q.country_region = req.country
                        /\ (~req.start_date.null) => req.start_date.v <= q.date
                        /\ (~req.end_date.null) => q.date <= req.end_date.v}}

\* C25: get_country_cases answers one data point per date of the country
\* within start_date <= d <= end_date (an absent bound unbounded), each the
\* sum over the country's rows of d, in strictly ascending date order, the
\* count being the number of points.
C25_CountrySeries ==
    req.endpoint = "country" =>
        IF CountryDates = {} THEN ans.status = 404 /\ ans.data = <<>>
        ELSE /\ ans.status = 200
             /\ Len(ans.data) = Cardinality(CountryDates)
             /\ {ans.data[i].date : i \in 1..Len(ans.data)} = CountryDates
             /\ \A i \in 1..(Len(ans.data) - 1) : ans.data[i].date < ans.data[i + 1].date
             /\ \A i \in 1..Len(ans.data) :
                   LET day == {r \in daily_cases : /\ r.country_region = req.country
                                                   /\ r.date = ans.data[i].date}
                   IN /\ ans.data[i].country = req.country
                      /\ ans.data[i].confirmed = SumCol(day, "confirmed")
                      /\ ans.data[i].deaths = SumCol(day, "deaths")
                      /\ ans.data[i].recovered = SumCol(day, "recovered")
                      /\ ans.data[i].active = SumCol(day, "active")

\* both bounds given, each equal to a date of the country: two points
C25_Witness ==
    /\ req.endpoint = "country"
    /\ req.country = "Italy"
    /\ req.start_date = Val(1)
    /\ req.end_date = Val(2)
    /\ ans.status = 200
    /\ Len(ans.data) = 2
    /\ \E r \in daily_cases : r.country_region # "Italy"

\* The positions of a request inside load_model
LoadSteps == {"load_model", "load_features", "load_metrics", "load_scaler"}

\* C26: the global predictor, whenever it is not None, has its model, its
\* feature_columns and its metrics; a load that fails does not touch the
\* global, which is still None if no load has succeeded; and a request
\* that finds the global None starts a load of its own on a fresh object.
C26_FullyLoaded ==
    /\ [](predictor # NoPredictor =>
             /\ predictor.model # None
             /\ predictor.feature_columns # None
             /\ predictor.metrics # None)
    /\ [][\A t \in Workers :
             (pc[t] \in LoadSteps /\ pc'[t] = "idle") =>
                 /\ predictor' = predictor
                 /\ loads = 0 => predictor' = NoPredictor
                 /\ resp'[t].status = 500]_vars
    /\ [][\A t \in Workers :
             (pc[t] = "get" /\ predictor = NoPredictor /\ pc'[t] # "get") =>
                 /\ pc'[t] = "load_model"
                 /\ obj'[t] = NewPredictor(t)
                 /\ predictor' = NoPredictor]_vars

\* a load has failed on a file the training script was writing, the global
\* is still None, and the request of another worker is in a load of its own
C26_Witness ==
    \E t \in Workers :
        /\ resp[t].status = 500
        /\ resp[t].message = "EOFError"
        /\ predictor = NoPredictor
        /\ loads = 0
        /\ \E u \in Workers \ {t} :
              /\ pc[u] = "load_features"
              /\ obj[u].model # None
              /\ resp[u].status = -1

\* C27: when load_model has succeeded, the classifier, the scaler, the
\* feature-name list and the metrics it holds come from one training run,
\* also while a training run is writing its four files.
C27_OneRunLoaded ==
    \A t \in Workers :
        pc[t] = "assign" =>
            /\ obj[t].feature_columns.run = obj[t].model.run
            /\ obj[t].metrics.run = obj[t].model.run
            /\ obj[t].scaler # None => obj[t].scaler.run = obj[t].model.run

\* The response of a finished request of kind k with body d, the header
\* left out
Expected(k, d) ==
    IF k = "route" /\ Validate(d) # NoResponse THEN Validate(d)
    ELSE Serve(k, predictor, d)

\* C28: apart from test-rbac, the response of an endpoint does not depend
\* on the X-API-Key header: a request gets the same responses with every
\* header (none, empty, unknown, the key of any role) and never a 401 or
\* 403; POST /api/predictions/mortality sent without a header is validated
\* and scored.
C28_KeyIndependent ==
    /\ req.endpoint \notin {"none", "test-rbac"} =>
          /\ \A k \in ApiKeys :
                /\ Respond(req, k, daily_cases, dashboard_metrics)
                      = Handler(req, daily_cases, dashboard_metrics)
                /\ ans \in Respond(req, k, daily_cases, dashboard_metrics)
          /\ ans.status \notin {401, 403}
    /\ \A t \in Workers :
          Done(t) =>
              /\ resp[t] = Expected(kind[t], data[t])
              /\ resp[t].status \notin {401, 403}
              /\ (hdr[t] = "absent" /\ kind[t] = "route"
                    /\ Validate(data[t]) = NoResponse)
                      => resp[t].status = 200 /\ resp[t].scored

\* a prediction was scored for a request without a header, and an
\* aggregation endpoint has answered
C28_Witness ==
    /\ hdr["w1"] = "absent"
    /\ kind["w1"] = "route"
    /\ Done("w1")
    /\ resp["w1"].status = 200
    /\ resp["w1"].scored
    /\ req.endpoint = "top"
    /\ ans.status = 200

\* The steps 1..n in their order
FirstSteps(n) == [i \in 1..n |-> i]

\* C29: run_complete_etl runs its six steps in order and stops at the
\* first database error: step 6 fills dashboard_metrics only after steps 1
\* to 5 have completed, an error changes no committed row and discards only
\* the uncommitted batch, nothing runs after it, and the connection is not
\* left open when the run has ended, with or without an error.
C29_EtlStopsAtError ==
    /\ [](/\ erun.done = FirstSteps(Len(erun.done))
          /\ erun.step \in 1..7 => Len(erun.done) = erun.step - 1
          /\ dashboard_metrics # {} => Len(erun.done) = 6
          /\ Len(erun.done) = 6 => MetricsReflect
          /\ erun.error # "" => erun.step = Ended /\ Len(erun.done) < 7
          /\ erun.step = Ended =>
                /\ erun.connection # "open"
                /\ erun.pending = {}
                /\ erun.error = "" => Len(erun.done) = 6)
    /\ [][/\ daily_cases \subseteq daily_cases'
          /\ erun'.error # erun.error =>
                /\ daily_cases' = daily_cases
                /\ dashboard_metrics' = dashboard_metrics
                /\ erun'.pending = {}
                /\ erun'.done = erun.done
          /\ erun'.done # erun.done =>
                /\ erun.step \in 1..6
                /\ erun'.done = Append(erun.done, erun.step)
          /\ dashboard_metrics' # dashboard_metrics => erun.step = 6
          /\ erun.step = Ended => erun' = erun]_vars

\* a run that failed in step 1 with its first batch committed and its
\* second batch rolled back: daily_cases has rows, dashboard_metrics none
C29_Witness ==
    /\ erun.step = Ended
    /\ erun.error = "Error"
    /\ erun.connection = "closed"
    /\ erun.done = <<>>
    /\ Len(erun.rows) = 3
    /\ erun.csv = <<>>
    /\ Cardinality(daily_cases) = 2
    /\ dashboard_metrics = {}
    /\ ~MetricsReflect

\* The six names of the derived slots
DerivedNames ==
    {"confirmed_change_2d", "deaths_change_2d", "recovered_change_2d",
     "log_confirmed_lag2", "log_deaths_lag2", "log_recovered_lag2"}

\* The mapping d without the keys in names
Without(d, names) == [k \in DOMAIN d \ names |-> d[k]]

\* C30: in every vector built (as assembled, before the scaler is applied)
\* slots 5 to 7 are the current count minus the lag slots 1 to 3 and slots
\* 17 to 19 are log1p of the lag slots 1 to 3, whatever the caller sends;
\* the vector is the one built from the mapping without the six names.
C30_DerivedSlots ==
    \A t \in Workers :
        resp[t].built # <<>> =>
            LET d == data[t]
                cur(k) == IF k \in DOMAIN d THEN d[k] * Unit ELSE 0
                b == resp[t].built
            IN /\ b[5] = Num(cur("confirmed") - b[1].v)
               /\ b[6] = Num(cur("deaths") - b[2].v)
               /\ b[7] = Num(cur("recovered") - b[3].v)
               /\ \A i \in 1..3 :
                     b[16 + i] = IF b[i].v > -Unit THEN [kind |-> "log1p", v |-> b[i].v]
                                 ELSE [kind |-> "nonfinite", v |-> 0]
               /\ b = FeatureArray(Without(d, DerivedNames))

\* a vector was built from a mapping that carries a confirmed_change_2d and
\* a log_confirmed_lag2 of its own, other than the derived ones
C30_Witness ==
    \E t \in Workers :
        /\ Len(resp[t].built) = 19
        /\ Has(data[t], "confirmed")
        /\ Has(data[t], "confirmed_change_2d")
        /\ Has(data[t], "log_confirmed_lag2")
        /\ resp[t].built[5] # Num(data[t]["confirmed_change_2d"] * Unit)
        /\ resp[t].built[17].v # data[t]["log_confirmed_lag2"] * Unit

====
